---- MODULE Spec2Model ----
(***************************************************************************)
(* A model of the kilo terminal text viewer: the raw-mode terminal session *)
(* of kilo.c, and the viewer built on it in the tutorial chapters (key     *)
(* decoding, row storage with tab rendering, cursor movement, scrolling).  *)
(***************************************************************************)
EXTENDS Integers, Sequences, FiniteSets, TLC

VARIABLES
    build,          \* which main() runs: "kilo.c" (byte echo loop) or "viewer"
    pc,             \* position of the process
    term,           \* attributes of the terminal device
    orig_termios,   \* E.orig_termios / orig_termios: the stored snapshot
    registered,     \* atexit(disableRawMode) has been called
    status,         \* exit status handed to exit(), NoStatus before
    how,            \* how the process ended: "running", "exit", "signal"
    events,         \* terminal and stderr effects, in order
    cx, cy,         \* E.cx, E.cy
    rowoff, coloff, \* E.rowoff, E.coloff
    screenrows, screencols, \* E.screenrows, E.screencols
    row,            \* E.row[0 .. E.numrows-1], as a sequence (index + 1)
    file,           \* the lines getline() returns, in order
    fpos,           \* number of lines already returned by getline()
    got,            \* bytes editorReadKey has read in the current call
    nreads,         \* read() calls made by the current editorReadKey call
    waits,          \* reads of the current editorReadKey call that returned
                    \* no byte before its first byte
    key,            \* c in editorProcessKeypress / main
    old,            \* cursor at entry of the last key dispatch (history)
    typed,          \* results of the reads of the current editorReadKey call,
                    \* from its first byte on (history, kept in decoder runs)
    written,        \* the write() calls of the last editorRefreshScreen, in
                    \* order, each the bytes it passed (history)
    win             \* what the terminal gave the getWindowSize call of
                    \* initEditor (history, kept until editorOpen)

vars == <<build, pc, term, orig_termios, registered, status, how, events,
          cx, cy, rowoff, coloff, screenrows, screencols, row, file, fpos,
          got, nreads, waits, key, old, typed, written, win>>

termvars == <<term, orig_termios, registered>>
edvars == <<cx, cy, rowoff, coloff, screenrows, screencols, row>>
keyvars == <<got, nreads, waits, key>>

(***************************************************************************)
(* Bounds of the model.                                                    *)
(***************************************************************************)
MaxLen == 1         \* bytes of a line before its terminator
MaxRows == 2        \* lines of the file
MaxScreen == 2      \* rows and columns the terminal reports

(***************************************************************************)
(* Bytes.                                                                  *)
(***************************************************************************)
TAB == 9
LF == 10
CR == 13
CTRL_Q == 17
ESC == 27
SPACE == 32
TILDE == 126
LBRACKET == 91
CH_O == 79
CH_A == 65
CH_B == 66
CH_C == 67
CH_D == 68
CH_F == 70
CH_H == 72
CH_0 == 48
CH_9 == 57
CH_a == 97
CH_q == 113
KILO_TAB_STOP == 8

\* editorKey
ARROW_LEFT == 1000
ARROW_RIGHT == 1001
ARROW_UP == 1002
ARROW_DOWN == 1003
DEL_KEY == 1004
HOME_KEY == 1005
END_KEY == 1006
PAGE_UP == 1007
PAGE_DOWN == 1008

\* results of read(fd, &c, 1) other than one byte
NOBYTE == -1        \* returned 0: the VTIME timeout passed
EAGAIN == -2        \* returned -1 with errno EAGAIN
EIO == -3           \* returned -1 with another errno
NoStatus == -1
NoKey == -1
NoWin == <<>>       \* no getWindowSize call to tell of
NoOld == <<-1, -1>>  \* no dispatch was made since the last refresh

Range(s) == {s[i] : i \in 1..Len(s)}
Min(a, b) == IF a < b THEN a ELSE b

(***************************************************************************)
(* Terminal attributes (struct termios).                                   *)
(***************************************************************************)
ZeroTermios ==
    [iflag |-> {}, oflag |-> {}, cflag |-> {}, lflag |-> {},
     vmin |-> 0, vtime |-> 0]

\* configurations a shell leaves the terminal in
CookedTermios ==
    { [iflag |-> {"ICRNL", "IXON", "BRKINT", "IUTF8"},
       oflag |-> {"OPOST", "ONLCR"},
       cflag |-> {"CREAD", "CS8"},
       lflag |-> {"ECHO", "ICANON", "ISIG", "IEXTEN", "ECHOE"},
       vmin |-> 1, vtime |-> 0],
      [iflag |-> {"ICRNL", "IXON", "INPCK", "ISTRIP"},
       oflag |-> {"OPOST"},
       cflag |-> {"CREAD"},
       lflag |-> {"ECHO", "ICANON", "ISIG"},
       vmin |-> 1, vtime |-> 0] }

\* the derivation with output post-processing left on
MakeRaw_opost(t) ==
    [t EXCEPT !.iflag = @ \ {"IXON", "ICRNL", "BRKINT", "INPCK", "ISTRIP"},
              !.cflag = @ \cup {"CS8"},
              !.lflag = @ \ {"ECHO", "ICANON", "ISIG", "IEXTEN"},
              !.vmin = 0,
              !.vtime = 1]

\* the struct raw that enableRawMode derives from the snapshot
MakeRaw(t) ==
    [t EXCEPT !.iflag = @ \ {"IXON", "ICRNL", "BRKINT", "INPCK", "ISTRIP"},
              !.oflag = @ \ {"OPOST"},
              !.cflag = @ \cup {"CS8"},
              !.lflag = @ \ {"ECHO", "ICANON", "ISIG", "IEXTEN"},
              !.vmin = 0,
              !.vtime = 1]

(***************************************************************************)
(* die(): the viewer's die clears the screen first; both print the message *)
(* with perror and call exit(1).  exit() runs the handlers registered with *)
(* atexit in a later step (RunExitHandlers).                               *)
(***************************************************************************)
DieEvents(b) == IF b = "viewer" THEN <<"clear", "perror">> ELSE <<"perror">>

\* die that ends with exit(0)
die_status0 ==
    /\ events' = events \o DieEvents(build)
    /\ status' = 0
    /\ pc' = "exiting"

die ==
    /\ events' = events \o DieEvents(build)
    /\ status' = 1
    /\ pc' = "exiting"

(***************************************************************************)
(* enableRawMode (kilo.c): capture the attributes, register the restore    *)
(* handler, apply the raw attributes.  tcgetattr fails when stdin is not a *)
(* terminal; tcsetattr can fail (e.g. the terminal went away).             *)
(***************************************************************************)
AfterRawMode(b) == IF b = "viewer" THEN "initEditor" ELSE "loop"

\* enableRawMode with atexit(disableRawMode) called before tcgetattr
enableRawMode_atexitfirst ==
    /\ pc = "main"
    /\ registered' = TRUE
    /\ \E got_ok \in BOOLEAN, set_ok \in BOOLEAN :
         IF ~got_ok
         THEN /\ die
              /\ UNCHANGED <<term, orig_termios>>
         ELSE /\ orig_termios' = term
              /\ IF set_ok
                 THEN /\ term' = MakeRaw(term)
                      /\ events' = Append(events, "raw")
                      /\ pc' = AfterRawMode(build)
                      /\ UNCHANGED status
                 ELSE /\ die
                      /\ UNCHANGED term
    /\ UNCHANGED <<build, how, edvars, file, fpos, keyvars, old,
                   typed, written, win>>

\* enableRawMode without the atexit(disableRawMode) call
enableRawMode_noatexit ==
    /\ pc = "main"
    /\ \E got_ok \in BOOLEAN, set_ok \in BOOLEAN :
         IF ~got_ok
         THEN /\ die
              /\ UNCHANGED <<term, orig_termios>>
         ELSE /\ orig_termios' = term
              /\ IF set_ok
                 THEN /\ term' = MakeRaw(term)
                      /\ events' = Append(events, "raw")
                      /\ pc' = AfterRawMode(build)
                      /\ UNCHANGED status
                 ELSE /\ die
                      /\ UNCHANGED term
    /\ UNCHANGED <<build, registered, how, edvars, file, fpos, keyvars, old,
                   typed, written, win>>

enableRawMode ==
    /\ pc = "main"
    /\ \E got_ok \in BOOLEAN, set_ok \in BOOLEAN :
         IF ~got_ok
         THEN /\ die
              /\ UNCHANGED <<term, orig_termios, registered>>
         ELSE /\ orig_termios' = term
              /\ registered' = TRUE
              /\ IF set_ok
                 THEN /\ term' = MakeRaw(term)
                      /\ events' = Append(events, "raw")
                      /\ pc' = AfterRawMode(build)
                      /\ UNCHANGED status
                 ELSE /\ die
                      /\ UNCHANGED term
    /\ UNCHANGED <<build, how, edvars, file, fpos, keyvars, old,
                   typed, written, win>>

(***************************************************************************)
(* exit(): the registered handler disableRawMode re-applies the snapshot.  *)
(* When its tcsetattr fails it calls die(), which calls exit() from inside *)
(* an exit handler: undefined behaviour, here either the process ends with *)
(* the handler's work undone or it never ends.                             *)
(***************************************************************************)
ReentrantExitOutcomes == {"terminated", "hung"}

\* the memory of the process goes with the process: E (but for the snapshot,
\* which the properties compare the terminal with) and the key being read
Released ==
    /\ cx' = 0
    /\ cy' = 0
    /\ rowoff' = 0
    /\ coloff' = 0
    /\ screenrows' = 0
    /\ screencols' = 0
    /\ row' = <<>>
    /\ file' = <<>>
    /\ fpos' = 0
    /\ got' = <<>>
    /\ nreads' = 0
    /\ waits' = 0
    /\ key' = NoKey
    /\ old' = NoOld
    /\ typed' = <<>>
    /\ written' = <<>>
    /\ win' = NoWin

memvars == <<cx, cy, rowoff, coloff, screenrows, screencols, row, file, fpos,
             got, nreads, waits, key, old, typed, written, win>>

disableRawMode(ok) ==
    IF ok
    THEN /\ term' = orig_termios
         /\ events' = Append(events, "restore")
         /\ pc' = "terminated"
         /\ how' = "exit"
         /\ Released
         /\ UNCHANGED status
    ELSE /\ UNCHANGED term
         /\ events' = (events \o <<"restore_failed">>) \o DieEvents(build)
         /\ status' = 1
         /\ \E o \in ReentrantExitOutcomes :
              /\ pc' = o
              /\ how' = IF o = "terminated" THEN "exit" ELSE how
              /\ IF o = "terminated" THEN Released ELSE UNCHANGED memvars

RunExitHandlers ==
    /\ pc = "exiting"
    /\ IF registered
       THEN \E ok \in BOOLEAN : disableRawMode(ok)
       ELSE /\ pc' = "terminated"
            /\ how' = "exit"
            /\ Released
            /\ UNCHANGED <<term, events, status>>
    /\ UNCHANGED <<build, orig_termios, registered>>

\* a signal (or any other abnormal end) terminates the process at once;
\* handlers registered with atexit do not run
Signal ==
    /\ pc \notin {"terminated"}
    /\ pc' = "terminated"
    /\ how' = "signal"
    /\ Released
    /\ UNCHANGED <<build, termvars, status, events>>

(***************************************************************************)
(* main of kilo.c: echo bytes until 'q'.                                   *)
(***************************************************************************)
IsByte(r) == r >= 0
EchoBytes == {CH_q, CH_a, ESC}
ReadResults(B) == B \cup {NOBYTE, EAGAIN, EIO}

mainLoop ==
    /\ pc = "loop"
    /\ \E r \in ReadResults(EchoBytes) :
         IF r = EIO
         THEN /\ die
              /\ UNCHANGED key
         ELSE /\ key' = IF IsByte(r) THEN r ELSE 0
              /\ IF r = CH_q
                 THEN /\ status' = 0         \* break; return 0
                      /\ pc' = "exiting"
                 ELSE UNCHANGED <<status, pc>>
              /\ UNCHANGED events
    /\ UNCHANGED <<build, termvars, how, edvars, file, fpos, got, nreads, waits,
                   old, typed, written, win>>

(***************************************************************************)
(* Window size: ioctl(TIOCGWINSZ), with the cursor-position-report         *)
(* fallback.                                                               *)
(***************************************************************************)
SEMI == 59
CH_R == 82
BufSize == 32

Seqs(S, n) == UNION {[1..k -> S] : k \in 0..n}

IsDigit(b) == b >= CH_0 /\ b <= CH_9

\* number of consecutive digits of s from position i on
RECURSIVE DigitsLen(_, _)
DigitsLen(s, i) ==
    IF i <= Len(s) /\ IsDigit(s[i]) THEN 1 + DigitsLen(s, i + 1) ELSE 0

\* value of the n digits of s that start at position i, after acc
RECURSIVE Atoi(_, _, _, _)
Atoi(s, i, n, acc) ==
    IF n = 0 THEN acc ELSE Atoi(s, i + 1, n - 1, acc * 10 + (s[i] - CH_0))

\* sscanf(s, "%d;%d", &a, &b): the number of conversions, and the values
sscanf2(s) ==
    LET n1 == DigitsLen(s, 1)
        p2 == n1 + 2
        n2 == DigitsLen(s, p2)
    IN  IF n1 = 0 THEN [n |-> 0, a |-> 0, b |-> 0]
        ELSE IF ~(n1 + 1 <= Len(s) /\ s[n1 + 1] = SEMI) \/ n2 = 0
             THEN [n |-> 1, a |-> Atoi(s, 1, n1, 0), b |-> 0]
             ELSE [n |-> 2, a |-> Atoi(s, 1, n1, 0), b |-> Atoi(s, p2, n2, 0)]

\* the bytes getCursorPosition stores in buf: it stops at the first 'R', when
\* a read returns no byte (the reply is exhausted), or when buf is full
RECURSIVE ReadReply(_, _)
ReadReply(reply, i) ==
    IF i < BufSize - 1 /\ i + 1 <= Len(reply) /\ reply[i + 1] # CH_R
    THEN ReadReply(reply, i + 1)
    ELSE SubSeq(reply, 1, i)

Failure == [ok |-> FALSE, rows |-> 0, cols |-> 0]

\* a getCursorPosition that fails unless the R has been read
getCursorPosition_needsR(wok, reply) ==
    LET buf == ReadReply(reply, 0)
        sc == sscanf2(SubSeq(buf, 3, Len(buf)))
    IN  IF ~wok THEN Failure
        ELSE IF Len(buf) < 2 \/ buf[1] # ESC \/ buf[2] # LBRACKET THEN Failure
        ELSE IF sc.n # 2 THEN Failure
        ELSE IF ~(Len(reply) > Len(buf) /\ reply[Len(buf) + 1] = CH_R)
             THEN Failure
        ELSE [ok |-> TRUE, rows |-> sc.a, cols |-> sc.b]

getCursorPosition(wok, reply) ==
    LET buf == ReadReply(reply, 0)
        sc == sscanf2(SubSeq(buf, 3, Len(buf)))
    IN  IF ~wok THEN Failure
        ELSE IF Len(buf) < 2 \/ buf[1] # ESC \/ buf[2] # LBRACKET THEN Failure
        ELSE IF sc.n # 2 THEN Failure
        ELSE [ok |-> TRUE, rows |-> sc.a, cols |-> sc.b]

getWindowSize(ws, wok1, wok2, reply) ==
    IF ~ws.ok \/ ws.col = 0
    THEN IF ~wok1 THEN Failure ELSE getCursorPosition(wok2, reply)
    ELSE [ok |-> TRUE, rows |-> ws.row, cols |-> ws.col]

\* what ioctl reports, and what the terminal answers to ESC [ 6 n
WinSizes ==
    {[ok |-> TRUE, row |-> r, col |-> c] : r \in 0..MaxScreen, c \in 0..MaxScreen}
      \cup {[ok |-> FALSE, row |-> 0, col |-> 0]}

Reply(r, c) == <<ESC, LBRACKET, CH_0 + r, SEMI, CH_0 + c, CH_R>>

Replies ==
    {Reply(r, c) : r \in 0..MaxScreen, c \in 0..MaxScreen}
      \cup {SubSeq(Reply(1, 1), 1, k) : k \in 0..5}
      \cup {<<ESC, LBRACKET, CH_0 + 1, CH_R>>, <<CH_a, CH_R>>}
      \cup {<<ESC, LBRACKET, CH_0 + 1, SEMI, CH_0 + 1, CH_a, CH_R>>,
            <<ESC, LBRACKET, CH_0 + 1, SEMI, CH_0 + 1>>
                \o [i \in 1..BufSize |-> CH_a] \o <<CH_R>>}

initEditor ==
    /\ pc = "initEditor"
    /\ cx' = 0
    /\ cy' = 0
    /\ rowoff' = 0
    /\ coloff' = 0
    /\ row' = <<>>
    /\ \E ws \in WinSizes, wok1 \in BOOLEAN, wok2 \in BOOLEAN, reply \in Replies :
         LET r == getWindowSize(ws, wok1, wok2, reply)
         IN  /\ win' = <<ws, wok1, wok2, reply>>
             /\ IF ~r.ok
                THEN /\ die
                     /\ UNCHANGED <<screenrows, screencols>>
                ELSE /\ screenrows' = r.rows
                     /\ screencols' = r.cols
                     /\ pc' = "editorOpen"
                     /\ UNCHANGED <<events, status>>
    /\ UNCHANGED <<build, termvars, how, file, fpos, keyvars, old,
                   typed, written>>

(***************************************************************************)
(* Rows.  An erow is [size, chars, rsize, render]; chars and render are    *)
(* byte sequences (C index i is TLA+ index i + 1).                         *)
(***************************************************************************)
NumRows == Len(row)         \* E.numrows

\* while(idx % KILO_TAB_STOP != 0) row->render[idx++] = ' ';
RECURSIVE PadToTabStop(_)
PadToTabStop(render) ==
    IF Len(render) % KILO_TAB_STOP # 0
    THEN PadToTabStop(Append(render, SPACE))
    ELSE render

\* the for loop of editorUpdateRow, from C index j on; idx = Len(render)
RECURSIVE RenderLoop(_, _, _)
RenderLoop(r, j, render) ==
    IF j < r.size
    THEN IF r.chars[j + 1] = TAB
         THEN RenderLoop(r, j + 1, PadToTabStop(Append(render, SPACE)))
         ELSE RenderLoop(r, j + 1, Append(render, r.chars[j + 1]))
    ELSE render

\* the loop with the unconditional first space of a tab left out
RECURSIVE RenderLoop_nospace(_, _, _)
RenderLoop_nospace(r, j, render) ==
    IF j < r.size
    THEN IF r.chars[j + 1] = TAB
         THEN RenderLoop_nospace(r, j + 1, PadToTabStop(render))
         ELSE RenderLoop_nospace(r, j + 1, Append(render, r.chars[j + 1]))
    ELSE render

editorUpdateRow_nospace(r) ==
    LET render == RenderLoop_nospace(r, 0, <<>>)
    IN  [r EXCEPT !.render = render, !.rsize = Len(render)]

editorUpdateRow(r) ==
    LET render == RenderLoop(r, 0, <<>>)
    IN  [r EXCEPT !.render = render, !.rsize = Len(render)]

\* the first loop of editorUpdateRow: the tab bytes of chars
Tabs(r) == Cardinality({j \in 1..r.size : r.chars[j] = TAB})

\* the allocation without the byte for the terminator
RenderAlloc_noterminator(r) == r.size + Tabs(r) * (KILO_TAB_STOP - 1)

\* the bytes malloc is asked for: size + tabs*(KILO_TAB_STOP - 1) + 1
RenderAlloc(r) == r.size + Tabs(r) * (KILO_TAB_STOP - 1) + 1

\* the row is stored without its render being computed
editorAppendRow_norender(rows, s, len) ==
    Append(rows, [size |-> len, chars |-> SubSeq(s, 1, len),
                  rsize |-> 0, render |-> <<>>])

\* E.row with a new row for the first len bytes of s at index E.numrows
\* an append that puts the new row before the others
editorAppendRow_first(rows, s, len) ==
    <<editorUpdateRow([size |-> len, chars |-> SubSeq(s, 1, len),
                       rsize |-> 0, render |-> <<>>])>> \o rows

editorAppendRow(rows, s, len) ==
    Append(rows, editorUpdateRow([size |-> len, chars |-> SubSeq(s, 1, len),
                                  rsize |-> 0, render |-> <<>>]))

\* only the newline is stripped
RECURSIVE StripTerminators_lfonly(_, _)
StripTerminators_lfonly(line, linelen) ==
    IF linelen > 0 /\ line[linelen] = LF
    THEN StripTerminators_lfonly(line, linelen - 1)
    ELSE linelen

\* while(linelen > 0 && (line[linelen-1] == '\n' || line[linelen-1] == '\r'))
\*     linelen--;
RECURSIVE StripTerminators(_, _)
StripTerminators(line, linelen) ==
    IF linelen > 0 /\ (line[linelen] = LF \/ line[linelen] = CR)
    THEN StripTerminators(line, linelen - 1)
    ELSE linelen

\* files of the viewer runs: lines as getline returns them
FileBytes == {CH_a, TAB}
Lines == {b \o <<LF>> : b \in Seqs(FileBytes, MaxLen)}
Files == Seqs(Lines, MaxRows)

\* main: if(argc >= 2) editorOpen(argv[1]), up to the first getline
editorOpen ==
    /\ pc = "editorOpen"
    /\ \E arg \in BOOLEAN, fopen_ok \in BOOLEAN :
         IF ~arg
         THEN /\ pc' = "refresh"
              /\ UNCHANGED <<file, fpos, events, status>>
         ELSE IF ~fopen_ok
              THEN /\ die
                   /\ UNCHANGED <<file, fpos>>
              ELSE /\ \E f \in Files : file' = f
                   /\ fpos' = 0
                   /\ pc' = "getline"
                   /\ UNCHANGED <<events, status>>
    /\ win' = NoWin
    /\ UNCHANGED <<build, termvars, how, edvars, keyvars, old,
                   typed, written>>

\* one iteration of the getline loop of editorOpen, or its end
editorOpenLine ==
    /\ pc = "getline"
    /\ IF fpos < Len(file)
       THEN LET line == file[fpos + 1]
                linelen == StripTerminators(line, Len(line))
            IN  /\ row' = editorAppendRow(row, line, linelen)
                /\ fpos' = fpos + 1
                /\ UNCHANGED pc
       ELSE /\ pc' = "refresh"
            /\ UNCHANGED <<row, fpos>>
    /\ UNCHANGED <<build, termvars, status, how, events, cx, cy, rowoff, coloff,
                   screenrows, screencols, file, keyvars, old,
                   typed, written, win>>

(***************************************************************************)
(* Cursor movement and scrolling.  e is the editor state E as a record.    *)
(***************************************************************************)
MaxUnder == 1       \* cx is followed down to -MaxUnder (zero-column screen)

E == [cx |-> cx, cy |-> cy, rowoff |-> rowoff, coloff |-> coloff,
      screenrows |-> screenrows, screencols |-> screencols, row |-> row]

\* row ? row->size : 0 for the row under line y
RowLen(e, y) == IF y >= Len(e.row) THEN 0 ELSE e.row[y + 1].size

\* the snap of E.cx to the end of the line at the end of editorMoveCursor
SnapCx(e) == IF e.cx > RowLen(e, e.cy) THEN [e EXCEPT !.cx = RowLen(e, e.cy)] ELSE e

\* ARROW_RIGHT that stops at the end of a line
MoveRight_nowrap(e) ==
    IF e.cy < Len(e.row) /\ e.cx < e.row[e.cy + 1].size
    THEN [e EXCEPT !.cx = @ + 1]
    ELSE e

MoveRight(e) ==
    IF e.cy < Len(e.row) /\ e.cx < e.row[e.cy + 1].size
    THEN [e EXCEPT !.cx = @ + 1]
    ELSE IF e.cy < Len(e.row) /\ e.cx = e.row[e.cy + 1].size
         THEN [e EXCEPT !.cy = @ + 1, !.cx = 0]
         ELSE e

\* ARROW_LEFT that stops at the start of a line
MoveLeft_nowrap(e) == IF e.cx # 0 THEN [e EXCEPT !.cx = @ - 1] ELSE e

MoveLeft(e) ==
    IF e.cx # 0
    THEN [e EXCEPT !.cx = @ - 1]
    ELSE IF e.cy > 0
         THEN [e EXCEPT !.cy = @ - 1, !.cx = e.row[e.cy].size]
         ELSE e

MoveUp(e) == IF e.cy # 0 THEN [e EXCEPT !.cy = @ - 1] ELSE e

\* ARROW_DOWN that goes on below the virtual row
MoveDown_unbounded(e) == [e EXCEPT !.cy = @ + 1]

MoveDown(e) == IF e.cy < Len(e.row) THEN [e EXCEPT !.cy = @ + 1] ELSE e

\* the move with cx clamped to the row that was under the cursor before it
editorMoveCursor_stalerow(e, k) ==
    LET m == CASE k = ARROW_LEFT -> MoveLeft(e)
               [] k = ARROW_RIGHT -> MoveRight(e)
               [] k = ARROW_UP -> MoveUp(e)
               [] k = ARROW_DOWN -> MoveDown(e)
               [] OTHER -> e
    IN  IF m.cx > RowLen(e, e.cy) THEN [m EXCEPT !.cx = RowLen(e, e.cy)] ELSE m

editorMoveCursor(e, k) ==
    SnapCx(CASE k = ARROW_LEFT -> MoveLeft(e)
             [] k = ARROW_RIGHT -> MoveRight(e)
             [] k = ARROW_UP -> MoveUp(e)
             [] k = ARROW_DOWN -> MoveDown(e)
             [] OTHER -> e)

\* the C indices at which one editorMoveCursor call accesses E.row: at its
\* entry (&E.row[E.cy], unless E.cy >= E.numrows), in ARROW_LEFT at the start
\* of a line (E.row[E.cy] after E.cy--), and when row is resolved again
MoveAccesses(e, k) ==
    (IF e.cy >= Len(e.row) THEN {} ELSE {e.cy})
    \cup (IF k = ARROW_LEFT /\ e.cx = 0 /\ e.cy > 0 THEN {e.cy - 1} ELSE {})
    \cup (IF editorMoveCursor(e, k).cy >= Len(e.row) THEN {}
          ELSE {editorMoveCursor(e, k).cy})

\* the page keys making one move only
RepeatMove_once(e, k, times) ==
    IF times = 0 THEN e ELSE editorMoveCursor(e, k)

\* while(times--) editorMoveCursor(k)
RECURSIVE RepeatMove(_, _, _)
RepeatMove(e, k, times) ==
    IF times = 0 THEN e ELSE RepeatMove(editorMoveCursor(e, k), k, times - 1)

\* the indices of E.row the moves of while(times--) editorMoveCursor(k) access
RECURSIVE RepeatAccesses(_, _, _)
RepeatAccesses(e, k, times) ==
    IF times = 0 THEN {}
    ELSE MoveAccesses(e, k)
           \cup RepeatAccesses(editorMoveCursor(e, k), k, times - 1)

\* scrolling that leaves the cursor one line below the window
editorScroll_offbyone(e) ==
    LET r1 == IF e.cy < e.rowoff THEN e.cy ELSE e.rowoff
        r2 == IF e.cy >= r1 + e.screenrows THEN e.cy - e.screenrows ELSE r1
        c1 == IF e.cx < e.coloff THEN e.cx ELSE e.coloff
        c2 == IF e.cx >= c1 + e.screencols THEN e.cx - e.screencols + 1 ELSE c1
    IN  [e EXCEPT !.rowoff = r2, !.coloff = c2]

editorScroll(e) ==
    LET r1 == IF e.cy < e.rowoff THEN e.cy ELSE e.rowoff
        r2 == IF e.cy >= r1 + e.screenrows THEN e.cy - e.screenrows + 1 ELSE r1
        c1 == IF e.cx < e.coloff THEN e.cx ELSE e.coloff
        c2 == IF e.cx >= c1 + e.screencols THEN e.cx - e.screencols + 1 ELSE c1
    IN  [e EXCEPT !.rowoff = r2, !.coloff = c2]

(***************************************************************************)
(* Drawing: the frame editorRefreshScreen builds in its append buffer.     *)
(* abAppend is concatenation; the frame is a sequence of bytes.            *)
(***************************************************************************)
QUESTION == 63
CH_2 == 50
CH_K == 75
CH_l == 108
CH_h == 104
MINUS == 45

HideCursor == <<ESC, LBRACKET, QUESTION, CH_2, CH_0 + 5, CH_l>>  \* "\x1b[?25l"
ShowCursor == <<ESC, LBRACKET, QUESTION, CH_2, CH_0 + 5, CH_h>>  \* "\x1b[?25h"
CursorHome == <<ESC, LBRACKET, CH_H>>                            \* "\x1b[H"
EraseLine == <<ESC, LBRACKET, CH_K>>                             \* "\x1b[K"
NewLine == <<CR, LF>>                                            \* "\r\n"

\* "Kilo editor -- version "
WelcomeText ==
    <<75, 105, 108, 111, 32, 101, 100, 105, 116, 111, 114, 32, 45, 45, 32,
      118, 101, 114, 115, 105, 111, 110, 32>>
\* the version string: "0.0.1"
KILO_VERSION == <<CH_0, 46, CH_0, 46, CH_0 + 1>>
\* snprintf(welcome, sizeof(welcome), "Kilo editor -- version %s", KILO_VERSION)
Welcome == WelcomeText \o KILO_VERSION

\* %d of a number
RECURSIVE Digits(_)
Digits(n) == IF n < 10 THEN <<CH_0 + n>>
             ELSE Append(Digits(n \div 10), CH_0 + (n % 10))
Decimal(n) == IF n < 0 THEN <<MINUS>> \o Digits(-n) ELSE Digits(n)

\* snprintf(buf, sizeof(buf), "\x1b[%d;%dH", r, c)
CursorTo(r, c) ==
    <<ESC, LBRACKET>> \o Decimal(r) \o <<SEMI>> \o Decimal(c) \o <<CH_H>>

\* if(padding){ abAppend(ab, "~", 1); padding--; }
\* while(padding--) abAppend(ab, " ", 1);
Padding(n) == [i \in 1..n |-> IF i = 1 THEN TILDE ELSE SPACE]

\* the welcome branch of editorDrawRows
DrawWelcome(e) ==
    LET welcomelen == IF Len(Welcome) > e.screencols THEN e.screencols
                      ELSE Len(Welcome)
        padding == (e.screencols - welcomelen) \div 2
    IN  Padding(padding) \o SubSeq(Welcome, 1, welcomelen)

\* the file-row branch without the cut to the width of the screen
DrawFileRow_unclipped(e, filerow) ==
    LET r == e.row[filerow + 1]
        len0 == r.rsize - e.coloff
        len == IF len0 < 0 THEN 0 ELSE len0
    IN  SubSeq(r.render, e.coloff + 1, e.coloff + len)

\* the file-row branch of editorDrawRows
DrawFileRow(e, filerow) ==
    LET r == e.row[filerow + 1]
        len0 == r.rsize - e.coloff
        len1 == IF len0 < 0 THEN 0 ELSE len0
        len == IF len1 > e.screencols THEN e.screencols ELSE len1
    IN  SubSeq(r.render, e.coloff + 1, e.coloff + len)

\* the loop body with a line break after the last line too
DrawLine_breaklast(e, y) ==
    LET filerow == y + e.rowoff
    IN  (IF filerow >= Len(e.row)
         THEN IF Len(e.row) = 0 /\ y = e.screenrows \div 3
              THEN DrawWelcome(e)
              ELSE <<TILDE>>
         ELSE DrawFileRow(e, filerow))
        \o EraseLine
        \o NewLine

\* the loop body drawing the welcome line whatever the buffer holds
DrawLine_anybuffer(e, y) ==
    LET filerow == y + e.rowoff
    IN  (IF filerow >= Len(e.row)
         THEN IF y = e.screenrows \div 3
              THEN DrawWelcome(e)
              ELSE <<TILDE>>
         ELSE DrawFileRow(e, filerow))
        \o EraseLine
        \o (IF y < e.screenrows - 1 THEN NewLine ELSE <<>>)

\* the indices of E.row editorDrawRows accesses: filerow, unless
\* filerow >= E.numrows
DrawAccesses(e) ==
    {y + e.rowoff : y \in {z \in 0..(e.screenrows - 1) :
                              ~(z + e.rowoff >= Len(e.row))}}

\* one iteration of the for loop of editorDrawRows: screen line y
DrawLine(e, y) ==
    LET filerow == y + e.rowoff
    IN  (IF filerow >= Len(e.row)
         THEN IF Len(e.row) = 0 /\ y = e.screenrows \div 3
              THEN DrawWelcome(e)
              ELSE <<TILDE>>
         ELSE DrawFileRow(e, filerow))
        \o EraseLine
        \o (IF y < e.screenrows - 1 THEN NewLine ELSE <<>>)

\* the for loop of editorDrawRows from screen line y on
RECURSIVE DrawRowsFrom(_, _)
DrawRowsFrom(e, y) ==
    IF y < e.screenrows THEN DrawLine(e, y) \o DrawRowsFrom(e, y + 1) ELSE <<>>

editorDrawRows(e) == DrawRowsFrom(e, 0)

\* the frame without the sequence that shows the cursor again
Frame_hidden(e) ==
    HideCursor \o CursorHome \o editorDrawRows(e)
    \o CursorTo((e.cy - e.rowoff) + 1, (e.cx - e.coloff) + 1)

\* the append buffer of editorRefreshScreen when it reaches its write()
Frame(e) ==
    HideCursor \o CursorHome \o editorDrawRows(e)
    \o CursorTo((e.cy - e.rowoff) + 1, (e.cx - e.coloff) + 1)
    \o ShowCursor

\* a refresh that writes each piece as it is produced, without the buffer
editorRefreshScreen_piecewise ==
    /\ pc = "refresh"
    /\ LET e == editorScroll(E)
       IN  /\ rowoff' = e.rowoff
           /\ coloff' = e.coloff
           /\ written' = <<HideCursor, CursorHome, editorDrawRows(e),
                           CursorTo((e.cy - e.rowoff) + 1,
                                    (e.cx - e.coloff) + 1),
                           ShowCursor>>
    /\ pc' = "readkey"
    /\ got' = <<>>
    /\ nreads' = 0
    /\ waits' = 0
    /\ key' = NoKey
    /\ old' = NoOld
    /\ typed' = <<>>
    /\ UNCHANGED <<build, termvars, status, how, events, cx, cy, screenrows,
                   screencols, row, file, fpos, win>>

\* editorRefreshScreen: scroll to the cursor, build the frame in the append
\* buffer, write(STDOUT_FILENO, ab.b, ab.len)
editorRefreshScreen ==
    /\ pc = "refresh"
    /\ LET e == editorScroll(E)
       IN  /\ rowoff' = e.rowoff
           /\ coloff' = e.coloff
           /\ written' = <<Frame(e)>>
    /\ pc' = "readkey"
    /\ got' = <<>>
    /\ nreads' = 0
    /\ waits' = 0
    /\ key' = NoKey
    /\ old' = NoOld
    /\ typed' = <<>>
    /\ UNCHANGED <<build, termvars, status, how, events, cx, cy, screenrows,
                   screencols, row, file, fpos, win>>

(***************************************************************************)
(* editorReadKey, one read() per step.  got holds c, seq[0], seq[1] as far *)
(* as they have been read and the call goes on.                            *)
(***************************************************************************)
CH_1 == 49
CH_3 == 51
CH_4 == 52
CH_5 == 53
CH_6 == 54
CH_7 == 55
CH_8 == 56

\* switch(seq[1]) after ESC [ and a non-digit
EscapeLetter(b) ==
    CASE b = CH_A -> ARROW_UP
      [] b = CH_B -> ARROW_DOWN
      [] b = CH_C -> ARROW_RIGHT
      [] b = CH_D -> ARROW_LEFT
      [] b = CH_H -> HOME_KEY
      [] b = CH_F -> END_KEY
      [] OTHER -> ESC

\* switch(seq[1]) after ESC [ digit ~
EscapeTilde(d) ==
    CASE d = CH_1 -> HOME_KEY
      [] d = CH_3 -> DEL_KEY
      [] d = CH_4 -> END_KEY
      [] d = CH_5 -> PAGE_UP
      [] d = CH_6 -> PAGE_DOWN
      [] d = CH_7 -> HOME_KEY
      [] d = CH_8 -> END_KEY
      [] OTHER -> ESC

\* switch(seq[1]) after ESC O
EscapeO(b) ==
    CASE b = CH_H -> HOME_KEY
      [] b = CH_F -> END_KEY
      [] OTHER -> ESC

\* the decoder that takes ESC [ 5 ~ and ESC [ 6 ~ the wrong way round
ReadKeyStep_swapped(g, r) ==
    IF Len(g) = 0
    THEN IF r = ESC THEN [key |-> NoKey, got |-> <<r>>]
                    ELSE [key |-> r, got |-> <<>>]
    ELSE IF ~IsByte(r) THEN [key |-> ESC, got |-> <<>>]
    ELSE IF Len(g) = 1 THEN [key |-> NoKey, got |-> Append(g, r)]
    ELSE IF Len(g) = 2
         THEN IF g[2] = LBRACKET
              THEN IF IsDigit(r)
                   THEN [key |-> NoKey, got |-> Append(g, r)]
                   ELSE [key |-> EscapeLetter(r), got |-> <<>>]
              ELSE IF g[2] = CH_O
                   THEN [key |-> EscapeO(r), got |-> <<>>]
                   ELSE [key |-> ESC, got |-> <<>>]
    ELSE IF r = TILDE
         THEN [key |-> EscapeTilde(IF g[3] = CH_5 THEN CH_6
                                   ELSE IF g[3] = CH_6 THEN CH_5 ELSE g[3]),
               got |-> <<>>]
         ELSE [key |-> ESC, got |-> <<>>]

\* the decoder that answers an unknown sequence with its last byte
ReadKeyStep_lastbyte(g, r) ==
    IF Len(g) = 0
    THEN IF r = ESC THEN [key |-> NoKey, got |-> <<r>>]
                    ELSE [key |-> r, got |-> <<>>]
    ELSE IF ~IsByte(r) THEN [key |-> ESC, got |-> <<>>]
    ELSE IF Len(g) = 1 THEN [key |-> NoKey, got |-> Append(g, r)]
    ELSE IF Len(g) = 2
         THEN IF g[2] = LBRACKET
              THEN IF IsDigit(r)
                   THEN [key |-> NoKey, got |-> Append(g, r)]
                   ELSE [key |-> EscapeLetter(r), got |-> <<>>]
              ELSE IF g[2] = CH_O
                   THEN [key |-> EscapeO(r), got |-> <<>>]
                   ELSE [key |-> r, got |-> <<>>]
    ELSE IF r = TILDE
         THEN [key |-> EscapeTilde(g[3]), got |-> <<>>]
         ELSE [key |-> ESC, got |-> <<>>]

\* the decoder reading again when a read after the escape byte gives no byte
ReadKeyStep_retry(g, r) ==
    IF Len(g) = 0
    THEN IF r = ESC THEN [key |-> NoKey, got |-> <<r>>]
                    ELSE [key |-> r, got |-> <<>>]
    ELSE IF ~IsByte(r) THEN [key |-> NoKey, got |-> g]
    ELSE IF Len(g) = 1 THEN [key |-> NoKey, got |-> Append(g, r)]
    ELSE IF Len(g) = 2
         THEN IF g[2] = LBRACKET
              THEN IF IsDigit(r)
                   THEN [key |-> NoKey, got |-> Append(g, r)]
                   ELSE [key |-> EscapeLetter(r), got |-> <<>>]
              ELSE IF g[2] = CH_O
                   THEN [key |-> EscapeO(r), got |-> <<>>]
                   ELSE [key |-> ESC, got |-> <<>>]
    ELSE IF r = TILDE
         THEN [key |-> EscapeTilde(g[3]), got |-> <<>>]
         ELSE [key |-> ESC, got |-> <<>>]

\* the decoder returning Escape at once when seq[0] is neither '[' nor 'O'
ReadKeyStep_twobytes(g, r) ==
    IF Len(g) = 0
    THEN IF r = ESC THEN [key |-> NoKey, got |-> <<r>>]
                    ELSE [key |-> r, got |-> <<>>]
    ELSE IF ~IsByte(r) THEN [key |-> ESC, got |-> <<>>]
    ELSE IF Len(g) = 1
         THEN IF r \in {LBRACKET, CH_O}
              THEN [key |-> NoKey, got |-> Append(g, r)]
              ELSE [key |-> ESC, got |-> <<>>]
    ELSE IF Len(g) = 2
         THEN IF g[2] = LBRACKET
              THEN IF IsDigit(r)
                   THEN [key |-> NoKey, got |-> Append(g, r)]
                   ELSE [key |-> EscapeLetter(r), got |-> <<>>]
              ELSE IF g[2] = CH_O
                   THEN [key |-> EscapeO(r), got |-> <<>>]
                   ELSE [key |-> ESC, got |-> <<>>]
    ELSE IF r = TILDE
         THEN [key |-> EscapeTilde(g[3]), got |-> <<>>]
         ELSE [key |-> ESC, got |-> <<>>]

\* the effect of one read() that returned r (a byte, for the first read) when
\* the bytes g have been read: the key returned (NoKey: the call goes on)
ReadKeyStep(g, r) ==
    IF Len(g) = 0
    THEN IF r = ESC THEN [key |-> NoKey, got |-> <<r>>]
                    ELSE [key |-> r, got |-> <<>>]
    ELSE IF ~IsByte(r) THEN [key |-> ESC, got |-> <<>>]
    ELSE IF Len(g) = 1 THEN [key |-> NoKey, got |-> Append(g, r)]
    ELSE IF Len(g) = 2
         THEN IF g[2] = LBRACKET
              THEN IF IsDigit(r)
                   THEN [key |-> NoKey, got |-> Append(g, r)]
                   ELSE [key |-> EscapeLetter(r), got |-> <<>>]
              ELSE IF g[2] = CH_O
                   THEN [key |-> EscapeO(r), got |-> <<>>]
                   ELSE [key |-> ESC, got |-> <<>>]
    ELSE IF r = TILDE
         THEN [key |-> EscapeTilde(g[3]), got |-> <<>>]
         ELSE [key |-> ESC, got |-> <<>>]

\* bytes the keyboard sends in the decoder runs
KeyBytes == {ESC, LBRACKET, CH_O, CH_A, CH_B, CH_C, CH_D, CH_H, CH_F,
             CH_5, CH_6, TILDE, CTRL_Q, CH_a}
AllKeyBytes == KeyBytes \cup (CH_0..CH_9) \cup {CH_q, CH_R, SEMI}

\* editorReadKey on the results t of its reads, the first of them a byte: the
\* key it returns, NoKey when t ends before the call does
RECURSIVE ReadKeyFrom(_, _)
ReadKeyFrom(g, t) ==
    LET s == ReadKeyStep(g, Head(t))
    IN  IF s.key # NoKey \/ Len(t) = 1 THEN s.key ELSE ReadKeyFrom(s.got, Tail(t))

\* what the reads of one editorReadKey call return in the viewer runs: a
\* plain byte, the quit chord, a lone ESC, the sequences of the arrow, Home,
\* End, Delete and page keys
KeySeqs ==
    {<<CH_a>>, <<CTRL_Q>>, <<ESC, NOBYTE>>,
     <<ESC, LBRACKET, CH_A>>, <<ESC, LBRACKET, CH_B>>,
     <<ESC, LBRACKET, CH_C>>, <<ESC, LBRACKET, CH_D>>,
     <<ESC, LBRACKET, CH_H>>, <<ESC, CH_O, CH_F>>,
     <<ESC, LBRACKET, CH_3, TILDE>>, <<ESC, LBRACKET, CH_5, TILDE>>,
     <<ESC, LBRACKET, CH_6, TILDE>>}

\* first reads without a byte that are followed in one editorReadKey call
MaxWaits == 2

\* editorReadKey giving up when its first read returns no byte
ReadKeyWith_return(r) ==
    /\ pc = "readkey"
    /\   IF Len(got) = 0 /\ ~IsByte(r)
         THEN IF r = EIO
              THEN /\ die
                   /\ UNCHANGED keyvars
              ELSE /\ waits < MaxWaits
                   /\ waits' = waits + 1
                   /\ pc' = "refresh"
                   /\ UNCHANGED <<events, status, got, nreads, key>>
         ELSE LET s == ReadKeyStep(got, r)
              IN  /\ got' = s.got
                  /\ key' = s.key
                  /\ nreads' = IF Len(got) = 0 THEN 0 ELSE nreads + 1
                  /\ pc' = IF s.key = NoKey THEN "readkey" ELSE "dispatch"
                  /\ UNCHANGED <<events, status, waits>>
    /\ UNCHANGED <<build, termvars, how, edvars, file, fpos, old, written, win>>

\* editorReadKey with EAGAIN on its first read treated as an error
ReadKeyWith_eagainfatal(r) ==
    /\ pc = "readkey"
    /\   IF Len(got) = 0 /\ ~IsByte(r)
         THEN IF r \in {EIO, EAGAIN}
              THEN /\ die
                   /\ UNCHANGED keyvars
              ELSE /\ waits < MaxWaits
                   /\ waits' = waits + 1
                   /\ UNCHANGED <<pc, events, status, got, nreads, key>>
         ELSE LET s == ReadKeyStep(got, r)
              IN  /\ got' = s.got
                  /\ key' = s.key
                  /\ nreads' = IF Len(got) = 0 THEN 0 ELSE nreads + 1
                  /\ pc' = IF s.key = NoKey THEN "readkey" ELSE "dispatch"
                  /\ UNCHANGED <<events, status, waits>>
    /\ UNCHANGED <<build, termvars, how, edvars, file, fpos, old, written, win>>

ReadKeyWith(r) ==
    /\ pc = "readkey"
    /\   IF Len(got) = 0 /\ ~IsByte(r)
         THEN IF r = EIO
              THEN /\ die                       \* die("read")
                   /\ UNCHANGED keyvars
              ELSE /\ waits < MaxWaits             \* read again
                   /\ waits' = waits + 1
                   /\ UNCHANGED <<pc, events, status, got, nreads, key>>
         ELSE LET s == ReadKeyStep(got, r)
              IN  /\ got' = s.got
                  /\ key' = s.key
                  /\ nreads' = IF Len(got) = 0 THEN 0 ELSE nreads + 1
                  /\ pc' = IF s.key = NoKey THEN "readkey" ELSE "dispatch"
                  /\ UNCHANGED <<events, status, waits>>
    /\ UNCHANGED <<build, termvars, how, edvars, file, fpos, old, written, win>>

\* one read() of editorReadKey with the keyboard sending bytes of B, the
\* results of the reads recorded from the first byte on
editorReadKey(B) ==
    \E r \in ReadResults(B) :
        /\ ReadKeyWith(r)
        /\ typed' = IF Len(got) = 0 /\ ~IsByte(r) THEN typed ELSE Append(typed, r)

(***************************************************************************)
(* editorProcessKeypress: the switch on the key editorReadKey returned.    *)
(***************************************************************************)
\* the switch with a default case that acts as Home
Dispatch_default(e, k) ==
    CASE k = END_KEY -> [e EXCEPT !.cx = e.screencols - 1]
      [] k \in {PAGE_UP, PAGE_DOWN} ->
            RepeatMove(e, IF k = PAGE_UP THEN ARROW_UP ELSE ARROW_DOWN,
                       e.screenrows)
      [] k \in {ARROW_UP, ARROW_DOWN, ARROW_LEFT, ARROW_RIGHT} ->
            editorMoveCursor(e, k)
      [] OTHER -> [e EXCEPT !.cx = 0]

\* the switch with End going to the end of the row
Dispatch_endofrow(e, k) ==
    CASE k = HOME_KEY -> [e EXCEPT !.cx = 0]
      [] k = END_KEY -> [e EXCEPT !.cx = RowLen(e, e.cy)]
      [] k \in {PAGE_UP, PAGE_DOWN} ->
            RepeatMove(e, IF k = PAGE_UP THEN ARROW_UP ELSE ARROW_DOWN,
                       e.screenrows)
      [] k \in {ARROW_UP, ARROW_DOWN, ARROW_LEFT, ARROW_RIGHT} ->
            editorMoveCursor(e, k)
      [] OTHER -> e

\* the switch, for the keys other than the quit chord
Dispatch(e, k) ==
    CASE k = HOME_KEY -> [e EXCEPT !.cx = 0]
      [] k = END_KEY -> [e EXCEPT !.cx = e.screencols - 1]
      [] k \in {PAGE_UP, PAGE_DOWN} ->
            RepeatMove(e, IF k = PAGE_UP THEN ARROW_UP ELSE ARROW_DOWN,
                       e.screenrows)
      [] k \in {ARROW_UP, ARROW_DOWN, ARROW_LEFT, ARROW_RIGHT} ->
            editorMoveCursor(e, k)
      [] OTHER -> e

\* the indices of E.row the switch accesses for the key k
DispatchAccesses(e, k) ==
    CASE k \in {PAGE_UP, PAGE_DOWN} ->
            RepeatAccesses(e, IF k = PAGE_UP THEN ARROW_UP ELSE ARROW_DOWN,
                           e.screenrows)
      [] k \in {ARROW_UP, ARROW_DOWN, ARROW_LEFT, ARROW_RIGHT} ->
            MoveAccesses(e, k)
      [] OTHER -> {}

\* the quit chord leaving without the two clearing writes
ProcessKey_noclear(c) ==
    /\ old' = <<cx, cy>>
    /\ IF c = CTRL_Q
       THEN /\ status' = 0
            /\ pc' = "exiting"
            /\ UNCHANGED <<cx, cy, events>>
       ELSE LET e == Dispatch(E, c)
            IN  /\ e.cx >= -MaxUnder
                /\ cx' = e.cx
                /\ cy' = e.cy
                /\ pc' = "refresh"
                /\ UNCHANGED <<events, status>>
    /\ UNCHANGED <<build, termvars, how, rowoff, coloff, screenrows,
                   screencols, row, file, fpos, written, win>>

\* a dispatch that also scrolls to the cursor it has moved
ProcessKey_scrolls(c) ==
    /\ old' = <<cx, cy>>
    /\ IF c = CTRL_Q
       THEN /\ events' = Append(events, "clear")
            /\ status' = 0
            /\ pc' = "exiting"
            /\ UNCHANGED <<cx, cy, rowoff, coloff>>
       ELSE LET e == Dispatch(E, c)
            IN  /\ e.cx >= -MaxUnder
                /\ cx' = e.cx
                /\ cy' = e.cy
                /\ rowoff' = editorScroll(e).rowoff
                /\ coloff' = editorScroll(e).coloff
                /\ pc' = "refresh"
                /\ UNCHANGED <<events, status>>
    /\ UNCHANGED <<build, termvars, how, screenrows,
                   screencols, row, file, fpos, written, win>>

\* the body of editorProcessKeypress once editorReadKey has returned c
ProcessKey(c) ==
    /\ old' = <<cx, cy>>
    /\ IF c = CTRL_Q
       THEN /\ events' = Append(events, "clear")
            /\ status' = 0                      \* exit(0)
            /\ pc' = "exiting"
            /\ UNCHANGED <<cx, cy>>
       ELSE LET e == Dispatch(E, c)
            IN  /\ e.cx >= -MaxUnder
                /\ cx' = e.cx
                /\ cy' = e.cy
                /\ pc' = "refresh"
                /\ UNCHANGED <<events, status>>
    /\ UNCHANGED <<build, termvars, how, rowoff, coloff, screenrows,
                   screencols, row, file, fpos, written, win>>

\* editorProcessKeypress after the stepwise editorReadKey (decoder runs)
editorDispatch ==
    /\ pc = "dispatch"
    /\ ProcessKey(key)
    /\ UNCHANGED <<keyvars, typed>>

\* editorProcessKeypress as a whole: editorReadKey reads one of KeySeqs, or
\* its first read fails, and the key is dispatched
editorProcessKeypress ==
    /\ pc = "readkey"
    /\ \/ \E t \in KeySeqs :
            /\ key' = ReadKeyFrom(<<>>, t)
            /\ nreads' = Len(t) - 1
            /\ ProcessKey(ReadKeyFrom(<<>>, t))
            /\ UNCHANGED <<got, waits, typed>>
       \/ /\ die                               \* die("read")
          /\ UNCHANGED <<build, termvars, how, edvars, file, fpos, keyvars,
                         old, typed, written, win>>

(***************************************************************************)
(* The program: kilo.c, or the viewer, started on a cooked terminal.       *)
(***************************************************************************)
Builds == {"kilo.c", "viewer"}

Init ==
    /\ build \in Builds
    /\ pc = "main"
    /\ term \in CookedTermios
    /\ orig_termios = ZeroTermios
    /\ registered = FALSE
    /\ status = NoStatus
    /\ how = "running"
    /\ events = <<>>
    /\ cx = 0
    /\ cy = 0
    /\ rowoff = 0
    /\ coloff = 0
    /\ screenrows = 0
    /\ screencols = 0
    /\ row = <<>>
    /\ file = <<>>
    /\ fpos = 0
    /\ got = <<>>
    /\ nreads = 0
    /\ waits = 0
    /\ key = NoKey
    /\ old = NoOld
    /\ typed = <<>>
    /\ written = <<>>
    /\ win = NoWin

Next ==
    \/ enableRawMode
    \/ mainLoop
    \/ initEditor
    \/ editorOpen
    \/ editorOpenLine
    \/ editorRefreshScreen
    \/ editorProcessKeypress
    \/ RunExitHandlers
    \/ Signal

Spec == Init /\ [][Next]_vars

(***************************************************************************)
(* Loading runs: the viewer at its first getline, on files whose lines     *)
(* also hold carriage returns and whose last line may lack the newline.    *)
(***************************************************************************)
MaxChars == 3       \* bytes of a line before its newline
MaxOpenRows == 1    \* lines of the file

OpenBytes == {CH_a, TAB, CR}
OpenFiles ==
    {<<>>} \cup
    UNION {{f \o <<l>> : f \in [1..k -> {b \o <<LF>> : b \in Seqs(OpenBytes, MaxChars)}],
                         l \in {b \o t : b \in Seqs(OpenBytes, MaxChars),
                                         t \in {<<>>, <<LF>>}} \ {<<>>}}
           : k \in 0..(MaxOpenRows - 1)}

\* the viewer in raw mode after initEditor, with the cursor at the origin
Started(rows, cols) ==
    /\ build = "viewer"
    /\ \E t \in CookedTermios : orig_termios = t /\ term = MakeRaw(t)
    /\ registered = TRUE
    /\ status = NoStatus
    /\ how = "running"
    /\ events = <<"raw">>
    /\ cx = 0
    /\ cy = 0
    /\ rowoff = 0
    /\ coloff = 0
    /\ screenrows = rows
    /\ screencols = cols
    /\ row = <<>>
    /\ fpos = 0
    /\ got = <<>>
    /\ nreads = 0
    /\ waits = 0
    /\ key = NoKey
    /\ old = NoOld
    /\ typed = <<>>
    /\ written = <<>>
    /\ win = NoWin

InitOpen ==
    /\ Started(1, 1)
    /\ pc = "getline"
    /\ file \in OpenFiles

NextOpen == editorOpenLine

SpecOpen == InitOpen /\ [][NextOpen]_vars

(***************************************************************************)
(* Drawing runs: the viewer at its first getline, on terminals of few     *)
(* rows, narrow or with the widths around the length of the welcome line.  *)
(***************************************************************************)
MaxDrawRows == 4    \* rows of the small terminals
MaxDrawCols == 2    \* columns of the narrow terminals, and columns the
                    \* wide ones have beside the welcome line

DrawSizes ==
    (0..MaxDrawRows)
       \X ((0..MaxDrawCols)
             \cup {Len(Welcome) + d : d \in (0 - 1)..(MaxDrawCols + 1)})

DrawFiles == {f \in Files : Len(f) <= 1}

InitDraw ==
    /\ \E sz \in DrawSizes : Started(sz[1], sz[2])
    /\ pc = "getline"
    /\ file \in DrawFiles

NextDraw ==
    \/ editorOpenLine
    \/ editorRefreshScreen
    \/ editorProcessKeypress
    \/ RunExitHandlers

SpecDraw == InitDraw /\ [][NextDraw]_vars

(***************************************************************************)
(* Restoring runs: the program in raw mode calls disableRawMode and, when  *)
(* the call returns, calls it again; a call whose tcsetattr fails dies,    *)
(* and exit then runs the registered handler.  The terminal is as          *)
(* enableRawMode left it or as another process has set it since.           *)
(***************************************************************************)
MaxCalls == 3       \* calls of disableRawMode that return

\* calls of disableRawMode that have returned
Calls == Len(SelectSeq(events, LAMBDA x : x = "restore"))

\* a disableRawMode that keeps the attributes it replaces as its snapshot
disableRawModeCall_swap ==
    /\ pc = "disableRawMode"
    /\ \E ok \in BOOLEAN :
         IF ok
         THEN /\ Calls < MaxCalls
              /\ term' = orig_termios
              /\ orig_termios' = term
              /\ events' = Append(events, "restore")
              /\ UNCHANGED <<pc, status>>
         ELSE /\ die
              /\ UNCHANGED <<term, orig_termios>>
    /\ UNCHANGED <<build, registered, how, edvars, file, fpos, keyvars, old,
                   typed, written, win>>

\* disableRawMode called from the program: tcsetattr(STDIN_FILENO,
\* TCSAFLUSH, &orig_termios), die("tcsetattr") when it fails
disableRawModeCall ==
    /\ pc = "disableRawMode"
    /\ \E ok \in BOOLEAN :
         IF ok
         THEN /\ Calls < MaxCalls
              /\ term' = orig_termios
              /\ events' = Append(events, "restore")
              /\ UNCHANGED <<pc, status>>
         ELSE /\ die
              /\ UNCHANGED term
    /\ UNCHANGED <<build, orig_termios, registered, how, edvars, file, fpos,
                   keyvars, old, typed, written, win>>

RestoreTerms == CookedTermios \cup {MakeRaw(t) : t \in CookedTermios}

InitRestore ==
    /\ build \in Builds
    /\ pc = "disableRawMode"
    /\ orig_termios \in CookedTermios
    /\ term \in RestoreTerms
    /\ registered = TRUE
    /\ status = NoStatus
    /\ how = "running"
    /\ events = <<"raw">>
    /\ cx = 0
    /\ cy = 0
    /\ rowoff = 0
    /\ coloff = 0
    /\ screenrows = 0
    /\ screencols = 0
    /\ row = <<>>
    /\ file = <<>>
    /\ fpos = 0
    /\ got = <<>>
    /\ nreads = 0
    /\ waits = 0
    /\ key = NoKey
    /\ old = NoOld
    /\ typed = <<>>
    /\ written = <<>>
    /\ win = NoWin

NextRestore ==
    \/ disableRawModeCall
    \/ RunExitHandlers

SpecRestore == InitRestore /\ [][NextRestore]_vars

(***************************************************************************)
(* Decoder runs: the viewer on an empty buffer, the keyboard sending any   *)
(* of AllKeyBytes, the results of the reads recorded in typed.             *)
(***************************************************************************)
InitKey ==
    /\ Started(1, 1)
    /\ pc = "refresh"
    /\ file = <<>>

NextKey ==
    \/ editorRefreshScreen
    \/ editorReadKey(AllKeyBytes)
    \/ editorDispatch
    \/ RunExitHandlers

SpecKey == InitKey /\ [][NextKey]_vars

(***************************************************************************)
(* Properties.                                                             *)
(***************************************************************************)
RawEntered == "raw" \in Range(events)
RestoreFailed == "restore_failed" \in Range(events)

\* C1 as stated: once raw mode has been entered, every terminated state,
\* however the process ended, has the terminal attributes equal to the
\* snapshot.
C1_Original ==
    (pc = "terminated" /\ RawEntered) => term = orig_termios

\* C1 (amended): once raw mode has been entered, every termination through
\* exit() (return from main, exit(0) on quit, die) in which the tcsetattr of
\* disableRawMode succeeds ends with the terminal attributes equal to the
\* snapshot; a signal, or a failing restore, leaves the terminal raw.
C1_RestoredOnExit ==
    (pc = "terminated" /\ RawEntered /\ how = "exit" /\ ~RestoreFailed)
        => term = orig_termios

C1_Witness ==
    /\ pc = "terminated"
    /\ how = "exit"
    /\ status = 0
    /\ events = <<"raw", "clear", "restore">>
    /\ term = orig_termios
    /\ term # MakeRaw(orig_termios)

\* C2: after editorScroll (the state in which the key is read and
\* dispatched), on a screen with at least one row and one column, the cursor
\* lies inside the window: rowoff <= cy < rowoff + screenrows and
\* coloff <= cx < coloff + screencols.
C2_CursorInWindow ==
    (pc \in {"readkey", "dispatch"} /\ screenrows > 0 /\ screencols > 0)
        => /\ rowoff <= cy
           /\ cy < rowoff + screenrows
           /\ coloff <= cx
           /\ cx < coloff + screencols

C2_Witness ==
    /\ pc = "readkey"
    /\ screenrows > 0
    /\ screencols > 0
    /\ rowoff > 0
    /\ coloff > 0
    /\ cy = rowoff + screenrows - 1
    /\ cx = coloff + screencols - 1

\* the recognized escape forms, as the claims list them
C3_Letters ==
    (CH_A :> ARROW_UP) @@ (CH_B :> ARROW_DOWN) @@ (CH_C :> ARROW_RIGHT)
      @@ (CH_D :> ARROW_LEFT) @@ (CH_H :> HOME_KEY) @@ (CH_F :> END_KEY)
C3_OLetters == (CH_H :> HOME_KEY) @@ (CH_F :> END_KEY)
C3_Digits ==
    (CH_1 :> HOME_KEY) @@ (CH_7 :> HOME_KEY) @@ (CH_3 :> DEL_KEY)
      @@ (CH_4 :> END_KEY) @@ (CH_8 :> END_KEY) @@ (CH_5 :> PAGE_UP)
      @@ (CH_6 :> PAGE_DOWN)

IsLetterForm(t) ==
    Len(t) = 3 /\ t[1] = ESC /\ t[2] = LBRACKET /\ t[3] \in DOMAIN C3_Letters
IsOForm(t) ==
    Len(t) = 3 /\ t[1] = ESC /\ t[2] = CH_O /\ t[3] \in DOMAIN C3_OLetters
IsTildeForm(t) ==
    /\ Len(t) = 4
    /\ t[1] = ESC
    /\ t[2] = LBRACKET
    /\ t[3] \in DOMAIN C3_Digits
    /\ t[4] = TILDE

\* C3: editorReadKey returns a first byte other than ESC unchanged, and
\* decodes ESC [ A/B/C/D/H/F, ESC O H/F and ESC [ d ~ (d = 1, 3, 4, 5, 6,
\* 7, 8) to the arrow, Home, End, Delete and page keys.
C3_DecodesRecognized ==
    pc = "dispatch" =>
        /\ typed[1] # ESC => (Len(typed) = 1 /\ key = typed[1])
        /\ IsLetterForm(typed) => key = C3_Letters[typed[3]]
        /\ IsOForm(typed) => key = C3_OLetters[typed[3]]
        /\ IsTildeForm(typed) => key = C3_Digits[typed[3]]

C3_Witness ==
    /\ pc = "dispatch"
    /\ typed = <<ESC, LBRACKET, CH_6, TILDE>>
    /\ key = PAGE_DOWN

\* C4: an input that begins with ESC and is not a recognized form (a lone
\* ESC, a follow-up read that fails, ESC [ digit and no '~', ESC [ d ~ with
\* d in {0, 2, 9}, ...) makes editorReadKey return ESC, and the call never
\* goes on beyond four bytes.
C4_UnrecognizedIsEscape ==
    /\ (pc = "dispatch" /\ typed[1] = ESC
          /\ ~(IsLetterForm(typed) \/ IsOForm(typed) \/ IsTildeForm(typed)))
        => key = ESC
    /\ pc = "dispatch" => Len(typed) <= 4
    /\ pc = "readkey" => Len(typed) <= 3

C4_Witness ==
    /\ pc = "dispatch"
    /\ key = ESC
    /\ \/ typed = <<ESC, LBRACKET, CH_0 + 2, TILDE>>
       \/ typed = <<ESC, LBRACKET, CH_5, NOBYTE>>

\* C5 as stated: after every dispatched key the cursor is inside the
\* buffer: 0 <= cy <= row_count and 0 <= cx <= length of the row at cy
\* (0 on the virtual row).
C5_CursorInBuffer ==
    (pc = "refresh" /\ key # NoKey)
        => /\ 0 <= cy
           /\ cy <= NumRows
           /\ 0 <= cx
           /\ cx <= RowLen(E, cy)

\* an editorProcessKeypress step whose key is ARROW_RIGHT
RightStep == pc = "readkey" /\ key' = ARROW_RIGHT /\ pc' = "refresh"
OnRow == cy >= 0 /\ cy < NumRows

\* C6 as stated: ARROW_RIGHT increments cx inside a row, moves from the end
\* of a row to column 0 of the next row if there is one, and is a no-op at
\* the end of the last row.
C6_Original ==
    [][RightStep =>
         /\ (OnRow /\ cx < row[cy + 1].size) => (cx' = cx + 1 /\ cy' = cy)
         /\ (OnRow /\ cx = row[cy + 1].size /\ cy + 1 < NumRows)
               => (cx' = 0 /\ cy' = cy + 1)
         /\ (OnRow /\ cx = row[cy + 1].size /\ cy + 1 = NumRows)
               => (cx' = cx /\ cy' = cy)]_vars

\* C6 (amended): ARROW_RIGHT increments cx inside a row; from the end of a
\* row it moves to column 0 of line cy + 1, which for the last row is the
\* virtual line after the last row (cy = row_count); on that virtual line it
\* leaves cy unchanged, and cx too unless cx > 0, which becomes 0.
C6_RightWraps ==
    [][RightStep =>
         /\ (OnRow /\ cx < row[cy + 1].size) => (cx' = cx + 1 /\ cy' = cy)
         /\ (OnRow /\ cx = row[cy + 1].size) => (cx' = 0 /\ cy' = cy + 1)
         /\ cy = NumRows => (cx' = Min(cx, 0) /\ cy' = cy)]_vars

C6_Witness ==
    /\ pc = "refresh"
    /\ key = ARROW_RIGHT
    /\ NumRows > 0
    /\ old = <<row[NumRows].size, NumRows - 1>>
    /\ row[NumRows].size > 0
    /\ cy = NumRows
    /\ cx = 0

\* the column reached after the first n bytes of chars, a tab advancing to
\* the next multiple of the tab stop
RECURSIVE TabColumn(_, _)
TabColumn(chars, n) ==
    IF n = 0 THEN 0
    ELSE LET c == TabColumn(chars, n - 1)
         IN  IF chars[n] = TAB
             THEN c + (KILO_TAB_STOP - (c % KILO_TAB_STOP))
             ELSE c + 1

Spaces(n) == [i \in 1..n |-> SPACE]

\* C7: render is computed from chars alone: a byte other than a tab is
\* copied, a tab becomes k spaces, 1 <= k <= 8, up to the next multiple of
\* 8; 'a' TAB 'a' renders as 'a', 7 spaces, 'a'.
C7_TabExpansion ==
    \A i \in 1..Len(row) :
        LET r == row[i]
        IN  /\ r.rsize = TabColumn(r.chars, Len(r.chars))
            /\ Len(r.render) = r.rsize
            /\ \A j \in 1..Len(r.chars) :
                 LET from == TabColumn(r.chars, j - 1)
                     to == TabColumn(r.chars, j)
                 IN  IF r.chars[j] = TAB
                     THEN /\ to - from \in 1..8
                          /\ to % 8 = 0
                          /\ \A p \in (from + 1)..to : r.render[p] = SPACE
                     ELSE /\ to = from + 1
                          /\ r.render[to] = r.chars[j]
            /\ r.chars = <<CH_a, TAB, CH_a>>
                 => r.render = (<<CH_a>> \o Spaces(7)) \o <<CH_a>>

C7_Witness ==
    /\ Len(row) >= 1
    /\ row[1].chars = <<CH_a, TAB, CH_a>>
    /\ row[1].render = <<CH_a, SPACE, SPACE, SPACE, SPACE, SPACE, SPACE, SPACE, CH_a>>
    /\ row[1].rsize = 9

\* chars with every tab replaced by the spaces up to the next tab stop
RECURSIVE TabExpansion(_)
TabExpansion(chars) ==
    IF chars = <<>> THEN <<>>
    ELSE LET pre == TabExpansion(SubSeq(chars, 1, Len(chars) - 1))
             last == chars[Len(chars)]
         IN  IF last = TAB
             THEN pre \o Spaces(KILO_TAB_STOP - (Len(pre) % KILO_TAB_STOP))
             ELSE Append(pre, last)

\* C8: in every state, every row of the buffer has len(render) >=
\* len(chars), no tab in render, and render equal to the tab expansion of
\* its chars.
C8_RenderOfChars ==
    \A i \in 1..Len(row) :
        /\ row[i].size = Len(row[i].chars)
        /\ row[i].rsize = Len(row[i].render)
        /\ row[i].rsize >= row[i].size
        /\ TAB \notin Range(row[i].render)
        /\ row[i].render = TabExpansion(row[i].chars)

C8_Witness ==
    /\ pc = "readkey"
    /\ Len(row) = 2
    /\ row[1].chars = <<TAB>>
    /\ row[1].render = Spaces(8)
    /\ row[2].chars = <<CH_a>>
    /\ row[2].render = <<CH_a>>

Prefixes(l) == {SubSeq(l, 1, n) : n \in 0..Len(l)}

\* C9 as stated: for every B, also one that ends in CR, the line B LF and
\* the line B CR LF are stored as a row whose chars are exactly B.
C9_Original ==
    \A i \in 1..Len(row) :
        \A B \in Prefixes(file[i]) :
            (file[i] = B \o <<LF>> \/ file[i] = B \o <<CR, LF>>)
                => row[i].chars = B

\* C9 (amended): every trailing CR and LF of a line is stripped and no
\* other byte: chars is the line without its longest suffix of CR and LF
\* bytes; so B LF and B CR LF are stored as exactly B when B does not end
\* in CR, and a B that ends in CR loses its trailing CR bytes too.
C9_StripsTrailing ==
    \A i \in 1..Len(row) :
        LET l == file[i]
            c == row[i].chars
        IN  /\ c \in Prefixes(l)
            /\ \A p \in (Len(c) + 1)..Len(l) : l[p] \in {CR, LF}
            /\ c # <<>> => c[Len(c)] \notin {CR, LF}
            /\ \A B \in Prefixes(l) :
                 (/\ B = <<>> \/ B[Len(B)] # CR
                  /\ l = B \o <<LF>> \/ l = B \o <<CR, LF>>)
                    => c = B

C9_Witness ==
    /\ pc = "refresh"
    /\ Len(row) = 1
    /\ file[1] = <<CH_a, CR, LF>>
    /\ row[1].chars = <<CH_a>>

\* C10 as stated: on a fatal error after raw mode has been entered the
\* terminal is restored before the message is written to stderr, and the
\* exit status is not 0.
C10_Original ==
    (pc = "terminated" /\ how = "exit" /\ RawEntered
       /\ "perror" \in Range(events) /\ ~RestoreFailed)
        => /\ \E i, j \in 1..Len(events) :
                i < j /\ events[i] = "restore" /\ events[j] = "perror"
           /\ status # 0

\* C10 (amended): on a fatal error after raw mode has been entered die
\* writes the message first, with the terminal still raw; the restore comes
\* after it, from the exit handler that exit(1) runs, and when it succeeds
\* the process ends with status 1 and the terminal restored.
C10_ReportThenRestore ==
    /\ \A j \in 1..Len(events) :
         events[j] = "perror" => \A i \in 1..j : events[i] # "restore"
    /\ (pc = "exiting" /\ RawEntered /\ "perror" \in Range(events))
          => (term = MakeRaw(orig_termios) /\ status = 1)
    /\ (pc = "terminated" /\ how = "exit" /\ RawEntered
          /\ "perror" \in Range(events) /\ ~RestoreFailed)
          => /\ events[Len(events)] = "restore"
             /\ status = 1
             /\ term = orig_termios

C10_Witness ==
    /\ pc = "terminated"
    /\ how = "exit"
    /\ build = "viewer"
    /\ events = <<"raw", "clear", "perror", "restore">>
    /\ status = 1
    /\ term = orig_termios

\* an editorProcessKeypress step whose key is the quit chord
QuitStep == pc = "readkey" /\ key' = CTRL_Q

GetattrFailed == ~registered /\ status # NoStatus

\* C12: when tcgetattr fails, enableRawMode dies: the message is printed, the
\* exit status is 1, the terminal attributes are the ones the program found,
\* no snapshot is stored and no restore is ever made; the handler is
\* registered only with a captured snapshot.
C12_GetattrFailure ==
    /\ GetattrFailed =>
          /\ pc \in {"exiting", "terminated"}
          /\ status = 1
          /\ events = DieEvents(build)
          /\ term \in CookedTermios
          /\ orig_termios = ZeroTermios
    /\ registered => orig_termios \in CookedTermios
    /\ ("restore" \in Range(events) \/ RestoreFailed) => registered

C12_Witness ==
    /\ pc = "terminated"
    /\ how = "exit"
    /\ ~registered
    /\ status = 1
    /\ events = <<"perror">>
    /\ term \in CookedTermios

\* a first read of editorReadKey that returned no byte and no error
TimeoutStep == pc = "readkey" /\ got = <<>> /\ waits' = waits + 1

\* C13 as stated: a key read that times out returns control to the editor
\* loop, which iterates again (scroll, render, read).
C13_Original == [][TimeoutStep => pc' = "refresh"]_vars

\* C13 (amended): a key read that times out is not an error, and
\* editorReadKey reads again: control stays inside the key read, the editor
\* loop does not iterate (no scroll, no render) until a byte arrives.
C13_TimeoutStaysInRead ==
    /\ [][TimeoutStep =>
            /\ pc' = "readkey"
            /\ UNCHANGED <<events, status, how, edvars, got, key>>]_vars
    /\ [][pc = "readkey" => pc' # "refresh"]_vars

C13_Witness ==
    /\ pc = "readkey"
    /\ got = <<>>
    /\ waits = MaxWaits
    /\ key = NoKey
    /\ events = <<"raw">>

\* the editorScroll call at the start of editorRefreshScreen
ScrollStep == pc = "refresh" /\ pc' = "readkey"

\* the offset the claim gives for position p, offset off and n screen lines
C14_Offset(p, off, n) ==
    IF p < off THEN p ELSE IF p >= off + n THEN p - n + 1 ELSE off

KeyStep(k) == pc = "readkey" /\ key' = k /\ pc' = "refresh"

RECURSIVE DispatchTimes(_, _, _)
DispatchTimes(e, k, n) ==
    IF n = 0 THEN e ELSE DispatchTimes(Dispatch(e, k), k, n - 1)

Max(a, b) == IF a > b THEN a ELSE b

\* a page key leaves the state of n = screenrows dispatches of arrow a, with
\* cy at the line to
PageAsArrows(a, to) ==
    /\ cx' = DispatchTimes(E, a, screenrows).cx
    /\ cy' = DispatchTimes(E, a, screenrows).cy
    /\ cy' = to
    /\ UNCHANGED <<rowoff, coloff, screenrows, screencols, row>>

HandledKeys ==
    {CTRL_Q, HOME_KEY, END_KEY, PAGE_UP, PAGE_DOWN,
     ARROW_UP, ARROW_DOWN, ARROW_LEFT, ARROW_RIGHT}

\* C17: the dispatch of a key other than the arrows, the page keys, Home,
\* End and the quit chord changes nothing: cursor, offsets, screen size and
\* buffer are as before, nothing is written, no exit is made, and the loop
\* goes on to the next refresh.
C17_IgnoredKeys ==
    [][(pc = "readkey" /\ key' \notin HandledKeys \cup {NoKey}) =>
         /\ pc' = "refresh"
         /\ UNCHANGED <<cx, cy, rowoff, coloff, screenrows, screencols, row>>
         /\ UNCHANGED <<events, status, how, termvars>>]_vars

C17_Witness ==
    /\ pc = "refresh"
    /\ key = DEL_KEY
    /\ NumRows = 1
    /\ old = <<1, 0>>
    /\ cx = 1
    /\ cy = 0
    /\ status = NoStatus


(***************************************************************************)
(* C18: every refresh issues exactly one write, and that write carries     *)
(* the whole frame: from the hide-cursor sequence, through the home        *)
(* sequence, one erased line per screen row and the cursor position, to    *)
(* the show-cursor sequence.  The frame is written once all of it has been *)
(* appended, and the refresh writes nothing else to the terminal.          *)
(***************************************************************************)
RefreshStep == pc = "refresh" /\ pc' = "readkey"

\* the places of s where the sequence t occurs
Occurrences(s, t) ==
    {i \in 1..(Len(s) - Len(t) + 1) : SubSeq(s, i, i + Len(t) - 1) = t}

StartsWith(s, t) == Len(s) >= Len(t) /\ SubSeq(s, 1, Len(t)) = t
EndsWith(s, t) ==
    Len(s) >= Len(t) /\ SubSeq(s, Len(s) - Len(t) + 1, Len(s)) = t

C18_SingleWrite ==
    [][RefreshStep =>
         /\ Len(written') = 1
         /\ written'[1] = Frame(E')
         /\ StartsWith(written'[1], HideCursor \o CursorHome)
         /\ EndsWith(written'[1], ShowCursor)
         /\ Cardinality(Occurrences(written'[1], EraseLine)) = screenrows
         /\ events' = events]_vars

C18_Witness ==
    /\ pc = "readkey"
    /\ NumRows > 0
    /\ screenrows > 1
    /\ Len(written) = 1
    /\ Cardinality(Occurrences(written[1], NewLine)) = screenrows - 1


(***************************************************************************)
(* C19: the welcome line is drawn exactly when the buffer has no rows, on  *)
(* screen line screenrows / 3 and on no other: the banner cut to           *)
(* screencols bytes, after (screencols - its length) / 2 columns of        *)
(* padding of which the first is '~' and the others are blanks.  Every     *)
(* other line past the end of the buffer shows '~' alone, so a buffer of   *)
(* one empty row shows no banner, and the empty buffer on 24 rows of 80    *)
(* columns has its banner on line 8.                                       *)
(***************************************************************************)
\* the first escape byte of s
FirstEsc(s) ==
    CHOOSE i \in 1..Len(s) : s[i] = ESC /\ \A j \in 1..(i - 1) : s[j] # ESC

\* what the next n screen lines show, read back from the bytes s sent to the
\* terminal: a line ends at its erase-line sequence
RECURSIVE ScreenLines(_, _)
ScreenLines(s, n) ==
    IF n = 0 THEN <<>>
    ELSE LET i == FirstEsc(s)
             skip == Len(EraseLine) + (IF n > 1 THEN Len(NewLine) ELSE 0)
         IN  <<SubSeq(s, 1, i - 1)>>
             \o ScreenLines(SubSeq(s, i + skip, Len(s)), n - 1)

\* the screen lines of the frame last written
Shown ==
    ScreenLines(SubSeq(written[1], Len(HideCursor \o CursorHome) + 1,
                       Len(written[1])),
                screenrows)

BannerLen == Min(Len(Welcome), screencols)
BannerPad == (screencols - BannerLen) \div 2
BannerLine ==
    (IF BannerPad > 0 THEN <<TILDE>> \o Spaces(BannerPad - 1) ELSE <<>>)
    \o SubSeq(Welcome, 1, BannerLen)

HasBanner(l) == Occurrences(l, SubSeq(Welcome, 1, BannerLen)) # {}

\* the viewer with no file on a terminal of 24 rows and 80 columns
Empty24x80 ==
    [cx |-> 0, cy |-> 0, rowoff |-> 0, coloff |-> 0, screenrows |-> 24,
     screencols |-> 80, row |-> <<>>]
Shown24x80 == ScreenLines(editorDrawRows(editorScroll(Empty24x80)), 24)

C19_WelcomeBanner ==
    /\ Shown24x80[8 + 1] =
          (<<TILDE>> \o Spaces(((80 - Len(Welcome)) \div 2) - 1)) \o Welcome
    /\ \A y \in 0..23 : y # 8 => Shown24x80[y + 1] = <<TILDE>>
    /\ (pc = "readkey" /\ Len(written) = 1) =>
        /\ Len(Shown) = screenrows
        /\ \A y \in 0..(screenrows - 1) :
             /\ y + rowoff >= NumRows =>
                  Shown[y + 1] = IF NumRows = 0 /\ y = screenrows \div 3
                                 THEN BannerLine
                                 ELSE <<TILDE>>
             /\ (screencols > 0 /\ HasBanner(Shown[y + 1])) =>
                  (NumRows = 0 /\ y = screenrows \div 3)

C19_Witness ==
    /\ pc = "readkey"
    /\ Len(written) = 1
    /\ NumRows = 0
    /\ screenrows = MaxDrawRows
    /\ screencols = Len(Welcome) + MaxDrawCols + 1
    /\ Shown[(MaxDrawRows \div 3) + 1] = BannerLine
    /\ BannerLine[1] = TILDE
    /\ BannerPad > 0


(***************************************************************************)
(* C20: disableRawMode called twice in succession leaves the terminal as   *)
(* one call leaves it, with the attributes of the snapshot, and no call    *)
(* changes the snapshot.                                                   *)
(***************************************************************************)
\* a call of disableRawMode that returns
CallStep == pc = "disableRawMode" /\ Calls' = Calls + 1

C20_RestoreTwice ==
    /\ [][CallStep => (term' = orig_termios /\ orig_termios' = orig_termios)]_vars
    /\ [][(CallStep /\ Calls >= 1) => term' = term]_vars
    /\ []((pc = "disableRawMode" /\ Calls >= 1) => term = orig_termios)
    /\ [][orig_termios' = orig_termios]_vars

C20_Witness ==
    /\ pc = "disableRawMode"
    /\ Calls = 2
    /\ term = orig_termios
    /\ orig_termios \in CookedTermios

(***************************************************************************)
(* C21: the attributes enableRawMode applies are the captured ones with    *)
(* ECHO, ICANON, ISIG, IEXTEN, IXON, ICRNL, OPOST, BRKINT, INPCK and       *)
(* ISTRIP off and CS8 on, VMIN 0 and VTIME 1 (tenths of a second); every   *)
(* other attribute is as captured, and the snapshot keeps the captured     *)
(* attributes.                                                             *)
(***************************************************************************)
\* the step of enableRawMode in which tcsetattr applies raw
RawStep == pc = "main" /\ events' = Append(events, "raw")

C21_RawAttributes ==
    /\ [][RawStep =>
            /\ orig_termios' = term
            /\ term'.iflag =
                 term.iflag \ {"BRKINT", "ICRNL", "INPCK", "ISTRIP", "IXON"}
            /\ term'.oflag = term.oflag \ {"OPOST"}
            /\ term'.cflag = term.cflag \cup {"CS8"}
            /\ term'.lflag = term.lflag \ {"ECHO", "ICANON", "IEXTEN", "ISIG"}
            /\ term'.vmin = 0
            /\ term'.vtime = 1]_vars
    /\ [][registered => orig_termios' = orig_termios]_vars

C21_Witness ==
    /\ pc \in {"loop", "initEditor"}
    /\ term.vtime = 1
    /\ "ECHO" \in orig_termios.lflag /\ "ECHO" \notin term.lflag
    /\ "INPCK" \in orig_termios.iflag /\ "INPCK" \notin term.iflag
    /\ "ONLCR" \notin orig_termios.oflag
    /\ "CS8" \notin orig_termios.cflag /\ "CS8" \in term.cflag

(***************************************************************************)
(* C22: getWindowSize takes the fallback exactly when ioctl fails or       *)
(* reports no columns.  The fallback succeeds, with the two numbers, when  *)
(* both its writes succeed and the bytes it has read - up to the first R,  *)
(* the end of the reply or the 31 bytes buf holds - begin with             *)
(* ESC [ <row> ; <col>; the R need not have come and what follows <col>    *)
(* is not looked at.  Otherwise it fails, and initEditor dies.             *)
(***************************************************************************)
WinCalled == win # NoWin /\ pc \in {"editorOpen", "exiting"}
WinOk == pc = "editorOpen"
WinFatal == pc = "exiting" /\ status = 1
UsesFallback == ~win[1].ok \/ win[1].col = 0

AllDigits(s) == \A i \in 1..Len(s) : s[i] >= CH_0 /\ s[i] <= CH_9

\* the number a sequence of digits denotes
RECURSIVE DecVal(_)
DecVal(s) ==
    IF Len(s) = 0 THEN 0
    ELSE 10 * DecVal(SubSeq(s, 1, Len(s) - 1)) + (s[Len(s)] - CH_0)

\* s is ESC [ <digits> ; <digits> R and nothing else
IsReport(s) ==
    /\ Len(s) >= 6
    /\ s[1] = ESC /\ s[2] = LBRACKET /\ s[Len(s)] = CH_R
    /\ \E k \in 4..(Len(s) - 2) :
         /\ s[k] = SEMI
         /\ AllDigits(SubSeq(s, 3, k - 1))
         /\ AllDigits(SubSeq(s, k + 1, Len(s) - 1))

\* the bytes of s before its first R, at most n of them
BeforeR(s, n) ==
    LET rs == {i \in 1..Len(s) : s[i] = CH_R}
        stop == IF rs = {} THEN Len(s)
                ELSE (CHOOSE i \in rs : \A j \in rs : i <= j) - 1
    IN  SubSeq(s, 1, Min(stop, n))

\* b begins with ESC [ <digits> ; <digits>, the numbers being r and c
BeginsWithNumbers(b, r, c) ==
    /\ Len(b) >= 5
    /\ b[1] = ESC /\ b[2] = LBRACKET
    /\ \E k \in 4..(Len(b) - 1), e \in 5..Len(b) :
         /\ k < e
         /\ b[k] = SEMI
         /\ AllDigits(SubSeq(b, 3, k - 1))
         /\ AllDigits(SubSeq(b, k + 1, e))
         /\ (e = Len(b) \/ ~AllDigits(<<b[e + 1]>>))
         /\ r = DecVal(SubSeq(b, 3, k - 1))
         /\ c = DecVal(SubSeq(b, k + 1, e))

C22_Original ==
    WinCalled =>
        IF UsesFallback
        THEN WinOk <=> (win[2] /\ win[3] /\ IsReport(win[4]))
        ELSE WinOk /\ screenrows = win[1].row /\ screencols = win[1].col

C22_Fallback ==
    WinCalled =>
        /\ WinOk \/ WinFatal
        /\ IF UsesFallback
           THEN /\ WinOk <=>
                     /\ win[2]
                     /\ win[3]
                     /\ \E r \in 0..99, c \in 0..99 :
                          BeginsWithNumbers(BeforeR(win[4], BufSize - 1), r, c)
                /\ WinOk =>
                     BeginsWithNumbers(BeforeR(win[4], BufSize - 1),
                                       screenrows, screencols)
           ELSE WinOk /\ screenrows = win[1].row /\ screencols = win[1].col

C22_Witness ==
    /\ WinCalled
    /\ UsesFallback
    /\ WinOk
    /\ ~IsReport(win[4])
    /\ Len(win[4]) > BufSize

(***************************************************************************)
(* C23 as stated: a window size of no rows or no columns, from ioctl or    *)
(* from the reply of the fallback, is fatal, and the editor loop never     *)
(* runs with screenrows = 0 or screencols = 0.                             *)
(***************************************************************************)
C23_ZeroSizeFatal ==
    /\ (WinCalled /\ ~UsesFallback /\ (win[1].row = 0 \/ win[1].col = 0))
          => WinFatal
    /\ pc \in {"refresh", "readkey", "dispatch"}
          => (screenrows > 0 /\ screencols > 0)

(***************************************************************************)
(* C24: after an escape byte editorReadKey reads seq[0] and, when that     *)
(* read gave a byte, seq[1], whatever seq[0] is.  When seq[0] is neither   *)
(* '[' nor 'O' it returns Escape after the read of seq[1]: a byte that     *)
(* follows seq[0] is consumed with it.  A read of seq[2] is made only      *)
(* after '[' and a digit.                                                  *)
(***************************************************************************)
EscapeRead == pc = "dispatch" /\ Len(typed) >= 1 /\ typed[1] = ESC
OtherSecond ==
    Len(typed) >= 2 /\ IsByte(typed[2]) /\ typed[2] \notin {LBRACKET, CH_O}

\* as stated: Escape after two bytes when the second is neither '[' nor 'O'
C24_Original ==
    (EscapeRead /\ OtherSecond) => (key = ESC /\ Len(typed) = 2)

C24_ThirdByte ==
    EscapeRead =>
        /\ Len(typed) >= 2
        /\ IsByte(typed[2]) => Len(typed) >= 3
        /\ OtherSecond => (key = ESC /\ Len(typed) = 3)
        /\ Len(typed) > 3 =>
             (Len(typed) = 4 /\ typed[2] = LBRACKET /\ IsDigit(typed[3]))

C24_Witness ==
    /\ EscapeRead
    /\ typed = <<ESC, CH_a, CH_A>>
    /\ key = ESC

(***************************************************************************)
(* C25: after the first byte of a key editorReadKey makes at most three    *)
(* more reads of one byte, under VMIN 0 and VTIME 1, and returns: every    *)
(* such read either ends the call or stores a byte and goes on to the      *)
(* next read; a read that gives no byte ends the call.                     *)
(***************************************************************************)
\* a read of editorReadKey after its first byte
FollowRead == pc = "readkey" /\ got # <<>> /\ typed' # typed

C25_BoundedReads ==
    /\ [](pc \in {"readkey", "dispatch"} => (nreads <= 3 /\ Len(typed) <= 4))
    /\ [](pc = "readkey" => (term.vmin = 0 /\ term.vtime = 1))
    /\ [][FollowRead =>
            /\ nreads' = nreads + 1
            /\ Len(typed') = Len(typed) + 1
            /\ \/ pc' = "dispatch"
               \/ /\ pc' = "readkey"
                  /\ IsByte(typed'[Len(typed')])
                  /\ got' = Append(got, typed'[Len(typed')])]_vars

C25_Witness ==
    /\ pc = "dispatch"
    /\ nreads = 3
    /\ Len(typed) = 4
    /\ key = ESC
    /\ ~IsByte(typed[4])

(***************************************************************************)
(* C26: ArrowLeft with cx > 0 takes one from cx and then clamps cx to the  *)
(* length of the row under the cursor (0 on the virtual row), which shows  *)
(* when the cursor was more than one column past the end of the row; with  *)
(* cx = 0 and cy > 0 it moves to the end of the row above, also from the   *)
(* virtual row; at (0, 0) it does nothing.                                 *)
(***************************************************************************)
\* the key k has been dispatched from the cursor position old
AfterKey(k) == pc = "refresh" /\ key = k /\ old # NoOld

C27_UpDown ==
    /\ AfterKey(ARROW_UP) =>
         /\ cy = IF old[2] = 0 THEN 0 ELSE old[2] - 1
         /\ cx = Min(old[1], RowLen(E, cy))
    /\ AfterKey(ARROW_DOWN) =>
         /\ cy = IF old[2] = NumRows THEN NumRows ELSE old[2] + 1
         /\ cx = Min(old[1], RowLen(E, cy))

C27_Witness ==
    /\ AfterKey(ARROW_DOWN)
    /\ cy = old[2] + 1
    /\ cy < NumRows
    /\ old[1] = RowLen(E, old[2])
    /\ cx < old[1]

(***************************************************************************)
(* C28: initEditor sets rowoff and coloff to 0, and from then on only the  *)
(* editorScroll call of a refresh writes them, with the offsets it         *)
(* computes; the dispatch of a key, whichever it is, leaves both as they   *)
(* were, and so does the drawing of the rows.  (The end of the process,    *)
(* which releases E, is not a write of the program.)                       *)
(***************************************************************************)
C28_SoleWriter ==
    /\ [][(pc = "initEditor" /\ pc' # "terminated") =>
            (rowoff' = 0 /\ coloff' = 0)]_vars
    /\ [][(<<rowoff, coloff>>' # <<rowoff, coloff>> /\ pc' # "terminated") =>
            /\ pc = "refresh"
            /\ pc' = "readkey"
            /\ rowoff' = editorScroll(E).rowoff
            /\ coloff' = editorScroll(E).coloff]_vars
    /\ [][pc = "readkey" => (pc' = "terminated" \/ UNCHANGED <<rowoff, coloff>>)]_vars

C28_Witness ==
    /\ pc = "refresh"
    /\ key \in {ARROW_UP, HOME_KEY}
    /\ rowoff > 0
    /\ coloff > 0
    /\ cy < rowoff
    /\ cx < coloff

(***************************************************************************)
(* C29: whenever a key is dispatched or the rows are drawn, every index at *)
(* which editorMoveCursor and editorDrawRows access E.row is at least 0    *)
(* and less than the number of rows: the virtual row at cy = numrows is    *)
(* not accessed, whatever the buffer, the empty one included, and          *)
(* whatever keys came before.                                              *)
(***************************************************************************)
RowIndices == 0..(NumRows - 1)
MovingKeys ==
    {ARROW_UP, ARROW_DOWN, ARROW_LEFT, ARROW_RIGHT, PAGE_UP, PAGE_DOWN}

C29_RowAccess ==
    pc \in {"refresh", "readkey"} =>
        /\ cy >= 0 /\ cy <= NumRows /\ rowoff >= 0
        /\ \A k \in MovingKeys : DispatchAccesses(E, k) \subseteq RowIndices
        /\ DrawAccesses(editorScroll(E)) \subseteq RowIndices

C29_Witness ==
    /\ pc = "readkey"
    /\ NumRows > 1
    /\ cy = NumRows
    /\ cx = 0
    /\ DispatchAccesses(E, ARROW_LEFT) = {NumRows - 1}
    /\ DrawAccesses(E) # {}

(***************************************************************************)
(* C30: a screen line y that shows the file row rowoff + y shows the bytes *)
(* render[coloff .. coloff + n) of that row, n being rsize - coloff, not   *)
(* below 0 and not above screencols: nothing when coloff >= rsize, never   *)
(* more than screencols bytes, and no byte from beyond the end of render.  *)
(***************************************************************************)
SliceLen(r) == Min(Max(r.rsize - coloff, 0), screencols)

C30_RowSlice ==
    (pc = "readkey" /\ Len(written) = 1) =>
        \A y \in 0..(screenrows - 1) :
            y + rowoff < NumRows =>
                LET r == row[y + rowoff + 1]
                    n == SliceLen(r)
                IN  /\ n >= 0
                    /\ n <= screencols
                    /\ n > 0 => (coloff >= 0 /\ coloff + n <= Len(r.render))
                    /\ coloff >= r.rsize => Shown[y + 1] = <<>>
                    /\ Shown[y + 1] = [i \in 1..n |-> r.render[coloff + i]]

C30_Witness ==
    /\ pc = "readkey"
    /\ Len(written) = 1
    /\ coloff > 0
    /\ \E y \in 0..(screenrows - 1) :
         /\ y + rowoff < NumRows
         /\ row[y + rowoff + 1].rsize > coloff + screencols
         /\ Len(Shown[y + 1]) = screencols
    /\ \E y \in 0..(screenrows - 1) :
         /\ y + rowoff < NumRows
         /\ row[y + rowoff + 1].rsize < coloff
         /\ Shown[y + 1] = <<>>

(***************************************************************************)
(* C31: every frame begins with the hide-cursor and the home sequences and *)
(* ends with ESC [ r ; c H and the show-cursor sequence, r being           *)
(* cy - rowoff + 1 and c being cx - coloff + 1 after the scroll.  On a     *)
(* screen with at least one row r is within 1..screenrows, and with at     *)
(* least one column c is within 1..screencols; on a screen of no rows r is *)
(* 0, and of no columns c is 0.                                            *)
(***************************************************************************)
\* a number below 100 in decimal
TwoDigits(n) ==
    IF n < 10 THEN <<CH_0 + n>> ELSE <<CH_0 + (n \div 10), CH_0 + (n % 10)>>

FrameRow == (cy - rowoff) + 1
FrameCol == (cx - coloff) + 1
FrameEnd ==
    <<ESC, LBRACKET>> \o TwoDigits(FrameRow) \o <<SEMI>> \o TwoDigits(FrameCol)
    \o <<CH_H, ESC, LBRACKET, QUESTION, CH_2, CH_5, CH_h>>
FrameEnds ==
    /\ StartsWith(written[1], <<ESC, LBRACKET, QUESTION, CH_2, CH_5, CH_l,
                                ESC, LBRACKET, CH_H>>)
    /\ FrameRow >= 0 /\ FrameCol >= 0
    /\ EndsWith(written[1], FrameEnd)

FrameBody ==
    SubSeq(written[1], Len(HideCursor \o CursorHome) + 1,
           Len(written[1]) - Len(FrameEnd))

\* the lines ls, from line y on, each with its erase-line sequence and, but
\* for the last of them, a line break
RECURSIVE JoinLines(_, _)
JoinLines(ls, y) ==
    IF y > Len(ls) THEN <<>>
    ELSE ls[y] \o <<ESC, LBRACKET, CH_K>>
           \o (IF y < Len(ls) THEN <<CR, LF>> ELSE <<>>)
           \o JoinLines(ls, y + 1)

LineBreaks == Cardinality(Occurrences(FrameBody, <<CR, LF>>))
Erasures == Cardinality(Occurrences(FrameBody, <<ESC, LBRACKET, CH_K>>))

Loaded == IF pc = "getline" THEN fpos ELSE Len(file)

C33_AppendOrder ==
    /\ [](pc \in {"getline", "refresh", "readkey"} =>
            /\ NumRows = Loaded
            /\ \A i \in 1..NumRows :
                 /\ row[i].chars \o <<LF>> = file[i]
                 /\ row[i].size = Len(row[i].chars))
    /\ [][(pc = "getline" /\ fpos' # fpos /\ pc' # "terminated") =>
            /\ Len(row') = Len(row) + 1
            /\ SubSeq(row', 1, Len(row)) = row
            /\ row'[Len(row')].chars \o <<LF>> = file[fpos']]_vars
    /\ [][(row' # row /\ pc' # "terminated") =>
            (pc = "getline" /\ fpos' = fpos + 1)]_vars

C33_Witness ==
    /\ pc = "refresh"
    /\ NumRows = 2
    /\ row[1].chars = <<TAB>>
    /\ row[2].chars = <<>>
    /\ file = << <<TAB, LF>>, <<LF>> >>

(***************************************************************************)
(* C34: read() returning -1 in editorReadKey.                              *)
(***************************************************************************)
\* the step is a read() of editorReadKey that returned r
ReadReturned(r) ==
    /\ ReadKeyWith(r)
    /\ typed' = IF Len(got) = 0 /\ ~IsByte(r) THEN typed ELSE Append(typed, r)

\* the step is die("read"): the message is printed and exit(1) begins
Fatal ==
    /\ pc' = "exiting"
    /\ status' = 1
    /\ events' = events \o DieEvents(build)

\* the step is what a read() that timed out does
LikeTimeout ==
    /\ UNCHANGED <<events, status>>
    /\ IF got = <<>> THEN pc' = "readkey" /\ UNCHANGED <<got, key>>
                     ELSE pc' = "dispatch" /\ key' = ESC /\ got' = <<>>

HandlerStep == pc = "exiting" /\ registered /\ events' # events

\* what the step added to the record of the run
Added == SubSeq(events', Len(events) + 1, Len(events'))

\* C35: the restore that runs at process exit never itself begins process
\* exit: disableRawMode run as an exit handler does not call die (no message,
\* no exit(1)), also when tcsetattr fails, and the process terminates with
\* the status exit was called with.
C35_NoExitInHandler ==
    [][HandlerStep =>
         /\ "perror" \notin Range(Added)
         /\ status' = status
         /\ pc' = "terminated"]_vars

(***************************************************************************)
(* C36: the columns of the rendered text that the keys can bring on        *)
(* screen.                                                                 *)
(***************************************************************************)
MoveKeys == {ARROW_LEFT, ARROW_RIGHT, ARROW_UP, ARROW_DOWN, HOME_KEY,
             END_KEY, PAGE_UP, PAGE_DOWN}

\* one turn of the editor loop: the key is dispatched, then editorScroll
KeyThenScroll(e, k) == editorScroll(Dispatch(e, k))

\* the editor states some sequence of keys leads to from the states of S
RECURSIVE KeyClosure(_)
KeyClosure(S) ==
    LET T == S \cup {e \in {KeyThenScroll(d, k) : d \in S, k \in MoveKeys} :
                       e.cx >= -MaxUnder}
    IN  IF T = S THEN S ELSE KeyClosure(T)

\* column c of the rendered text of row y is on the screen in state e
ColumnShown(e, y, c) ==
    /\ e.rowoff <= y - 1
    /\ y - 1 < e.rowoff + e.screenrows
    /\ e.coloff <= c
    /\ c < e.coloff + e.screencols

\* C36: on a screen of at least one row and one column, for every row and
\* every column of its rendered text, some sequence of cursor keys brings
\* that column inside the viewport (coloff <= column < coloff + screencols
\* after editorScroll), also for rows with tabs that are wider than the
\* screen.
C36_EveryColumnReachable ==
    (pc = "readkey" /\ screenrows > 0 /\ screencols > 0) =>
        \A y \in 1..NumRows : \A c \in 0..(row[y].rsize - 1) :
            \E e \in KeyClosure({E}) : ColumnShown(e, y, c)

(***************************************************************************)
(* C37: the writes of editorUpdateRow stay inside the allocation.          *)
(***************************************************************************)
\* the values of idx at which editorUpdateRow writes: one per byte of
\* render, then the terminator at rsize
WriteIndexes(r) == 0..Len(r.render)

\* C37: in editorUpdateRow the write index into render never exceeds
\* size + 7 * tabs, tabs being the number of tab bytes in chars, so
\* rsize <= size + 7 * tabs and the terminating byte is written inside the
\* allocation of size + 7 * tabs + 1 bytes.
C37_RenderFits ==
    \A i \in 1..NumRows :
        LET r == row[i]
        IN  /\ r.rsize = Len(r.render)
            /\ \A idx \in WriteIndexes(r) :
                 /\ idx <= r.size + 7 * Tabs(r)
                 /\ idx < RenderAlloc(r)
            /\ r.rsize <= r.size + 7 * Tabs(r)
            /\ RenderAlloc(r) = r.size + 7 * Tabs(r) + 1

\* a row of two tabs fills its allocation to the last byte
C37_Witness ==
    /\ NumRows = 1
    /\ row[1].chars = <<TAB, TAB>>
    /\ row[1].rsize = 2 * KILO_TAB_STOP
    /\ RenderAlloc(row[1]) = row[1].rsize + 1

====
